---- MODULE Spec2Model ----
(***************************************************************************)
(* A model of the content-synthesis pipeline of note5.3                    *)
(* (src/services/gemini.ts) and of the prove-it review session             *)
(* (src/components/ProveItModal.tsx).                                      *)
(*                                                                         *)
(* The module holds one state machine per entry point of GeminiService.    *)
(* Each has its own specification, because the entry points are stateless  *)
(* and independent of each other:                                          *)
(*   SpecGrade     ProveItModal + gradeProveIt + retryWithBackoff          *)
(*   SpecSummary   generateSummary                                         *)
(*   SpecQuiz      generateQuiz                                            *)
(*   SpecQuestions generateProveItQuestions                                *)
(*   SpecDocCards  generateFlashcardsFromDocument, with the generateSummary*)
(*                 and generateFlashcards calls of its fallback            *)
(*   SpecLists     generateFlashcards, generateQuiz,                       *)
(*                 generateProveItQuestions, one call at a time            *)
(*   SpecSession   ProveItModal with any number of its requests in flight; *)
(*                 SpecGrade follows one request at a time in full detail, *)
(*                 SpecSession keeps of a call only its arguments and its  *)
(*                 outcome                                                 *)
(*   SpecView      ResultView: the flashcard tab and the card pool of the  *)
(*                 prove-it session (src/unnamed/part_005)                 *)
(*   SpecUpload    FileUpload: handleStart and handleCancel                *)
(*                 (src/components/FileUpload.tsx)                         *)
(***************************************************************************)
EXTENDS Integers, Sequences, FiniteSets, TLC

VARIABLES
    \* ---- ProveItModal (React state of the component)
    isOpen,         \* prop isOpen
    step,           \* "question" | "results"
    loading,        \* boolean
    questions,      \* ProveItQuestion[]
    answers,        \* Record<id, string>; a missing key reads as ""
    grade,          \* ProveItGrade | null
    gradingError,   \* string | null
    modalPc,        \* "idle" | "generating" | "grading": the request the modal awaits
    callArgs,       \* the arguments of the gradeProveIt call in flight
    \* ---- one call of gradeProveIt / retryWithBackoff (its frame)
    retryPc,        \* "idle" | "fn" | "sleep" | "returned" | "thrown"
    attempt,        \* loop variable of retryWithBackoff
    lastError,      \* local lastError
    fnCalls,        \* number of times fn() was invoked in this call
    sleeps,         \* the delays slept in this call, in order
    fnErrors,       \* the errors fn() raised in this call, in order
    lastResponse,   \* the service outcome the last fn() invocation saw
    retryResult,    \* the value the call returned
    retryThrown,    \* the error the call threw
    \* ---- one call of generateSummary (its frame)
    sumPc,          \* "idle" | "open" | "pages" | "awaiting" | "returned" | "thrown"
    sumArgs,        \* [mimeType, mode, numPages]: the arguments and the document
    sumPage,        \* loop variable i of extractPdfText
    sumFullText,    \* fullText of extractPdfText: the pages read so far
    sumRequests,    \* the generateContent requests issued, in order
    sumOutcome,     \* the service outcome the awaited request saw
    sumResult,      \* the string returned
    sumThrown,      \* the error thrown
    \* ---- one call of generateQuiz (its frame)
    quizPc,         \* "idle" | "awaiting" | "returned"
    quizArgs,       \* [flashcards, style]
    quizRequests,   \* the generateContent requests issued, in order
    quizOutcome,    \* the service outcome the awaited request saw
    quizResult,     \* the list returned
    \* ---- one call of generateProveItQuestions (its frame)
    pqPc,           \* "idle" | "awaiting" | "returned"
    pqCards,        \* number of cards passed in
    pqRequests,     \* number of generateContent requests issued
    pqOutcome,      \* the service outcome the awaited request saw
    pqResult,       \* the list returned
    \* ---- one call of generateFlashcards (its frame)
    fcPc,           \* "idle" | "awaiting" | "returned" | "thrown"
    fcText,         \* the argument summaryText
    fcRequests,     \* the generateContent requests issued, in order
    fcOutcome,      \* the service outcome the awaited request saw
    fcResult,       \* the list returned
    \* ---- one call of generateFlashcardsFromDocument (its frame)
    dcPc,           \* "idle" | "open" | "pages" | "direct" | "fallbackSummary" |
                    \* "fallbackCards" | "returned"
    dcArgs,         \* [mimeType, numPages, config]: the arguments and the document
    dcPage,         \* loop variable i of extractPdfText
    dcFullText,     \* fullText of extractPdfText: the pages read so far
    dcText,         \* local textContext
    dcRequests,     \* the generateContent requests the call itself issued, in order
    dcOutcome,      \* the service outcome the direct request saw
    dcResult,       \* the list returned
    \* ---- the requests of ProveItModal when several are in flight (SpecSession)
    session,        \* number of runs of the open effect so far
    inflight,       \* the requests awaited: question generations and gradings
    questionsFor,   \* the run of the open effect whose request delivered questions
    gradeFor,       \* the gradeProveIt call that delivered grade
    \* ---- ResultView: the flashcard tab and the prove-it trigger
    deck,           \* localMaterial.flashcards
    flashcardIndex, \* index of the card shown, from 0
    reviewedCards,  \* the cards a confidence button was pressed on, in order
    proveItOpen,    \* boolean: the isOpen prop of ProveItModal
    advancePending, \* boolean: the 150 ms timer of handleFlashcardConfidence is armed
    \* ---- FileUpload: React state, the cancel ref and one run of handleStart
    file,           \* File | null
    storageMode,    \* "local" | "cloud"
    isWorking,      \* boolean
    statusText,     \* string
    uploadError,    \* state error: { message, type } | null
    cancelRef,      \* cancelRef.current
    runPc,          \* the await handleStart is suspended at, "idle" when no run is
    runCards,       \* local flashcards of the run
    netLog,         \* the network requests the run issued, each with the value
                    \* cancelRef.current had when it was issued
    storeLog,       \* the idbSet writes the run issued, likewise
    callbackLog,    \* the props the component called during the run, likewise
    runsStarted,    \* number of runs handleStart began
    runsEnded       \* number of runs that left handleStart

modalVars == <<isOpen, step, loading, questions, answers, grade, gradingError, modalPc,
               callArgs>>
retryVars == <<retryPc, attempt, lastError, fnCalls, sleeps, fnErrors, lastResponse,
               retryResult, retryThrown>>
gradeVars == <<modalVars, retryVars>>

summaryVars == <<sumPc, sumArgs, sumPage, sumFullText, sumRequests, sumOutcome, sumResult,
                 sumThrown>>

quizVars == <<quizPc, quizArgs, quizRequests, quizOutcome, quizResult>>
questionVars == <<pqPc, pqCards, pqRequests, pqOutcome, pqResult>>
flashcardVars == <<fcPc, fcText, fcRequests, fcOutcome, fcResult>>
docCardVars == <<dcPc, dcArgs, dcPage, dcFullText, dcText, dcRequests, dcOutcome, dcResult>>
sessionVars == <<session, inflight, questionsFor, gradeFor>>
viewVars == <<deck, flashcardIndex, reviewedCards, proveItOpen, advancePending>>
uploadVars == <<file, storageMode, isWorking, statusText, uploadError, cancelRef, runPc,
                runCards, netLog, storeLog, callbackLog, runsStarted, runsEnded>>

nonGradeVars == <<summaryVars, quizVars, questionVars, flashcardVars, docCardVars,
                  sessionVars, viewVars, uploadVars>>
nonSummaryVars == <<gradeVars, quizVars, questionVars, flashcardVars, docCardVars,
                    sessionVars, viewVars, uploadVars>>
nonQuizVars == <<gradeVars, summaryVars, questionVars, flashcardVars, docCardVars,
                 sessionVars, viewVars, uploadVars>>
nonQuestionVars == <<gradeVars, summaryVars, quizVars, flashcardVars, docCardVars,
                     sessionVars, viewVars, uploadVars>>
nonFlashcardVars == <<gradeVars, summaryVars, quizVars, questionVars, docCardVars,
                      sessionVars, viewVars, uploadVars>>
\* generateFlashcardsFromDocument calls generateSummary and generateFlashcards
nonDocCardVars == <<gradeVars, quizVars, questionVars, sessionVars, viewVars, uploadVars>>

\* the state SpecSession leaves alone: the single-call frame of SpecGrade and the rest
nonSessionVars == <<modalPc, callArgs, retryVars, summaryVars, quizVars, questionVars,
                    flashcardVars, docCardVars, viewVars, uploadVars>>

\* the state outside ResultView, and outside FileUpload
nonViewVars == <<gradeVars, summaryVars, quizVars, questionVars, flashcardVars, docCardVars,
                 sessionVars, uploadVars>>
nonUploadVars == <<gradeVars, summaryVars, quizVars, questionVars, flashcardVars,
                   docCardVars, sessionVars, viewVars>>

vars == <<gradeVars, summaryVars, quizVars, questionVars, flashcardVars, docCardVars,
          sessionVars, viewVars, uploadVars>>

(***************************************************************************)
(* Values                                                                  *)
(***************************************************************************)
Null == [t |-> "null"]
Undefined == [t |-> "undefined"]
NaN == [t |-> "nan"]
JNum(n) == [t |-> "num", v |-> n]
JStr == [t |-> "str"]           \* a string that is not a numeric literal

\* x ?? d
Coalesce(x, d) == IF x.t \in {"undefined", "null"} THEN d ELSE x

\* Number(x) for the values above
Number(x) ==
    CASE x.t = "num" -> x
      [] x.t = "null" -> JNum(0)
      [] OTHER -> NaN

(***************************************************************************)
(* Errors.  An error carries an optional status and an optional message;   *)
(* of a message the model keeps which of the substrings that               *)
(* retryWithBackoff and ProveItModal.submit look for occur in it.          *)
(***************************************************************************)
Markers == {"429", "503", "RESOURCE_EXHAUSTED", "UNAVAILABLE", "overloaded"}

Err(s, m) == [status |-> s, hasMessage |-> TRUE, message |-> m]
\* a thrown value with neither status nor message
BareError == [status |-> "none", hasMessage |-> FALSE, message |-> {}]
\* new Error(...) whose text holds none of the markers
GenericError == Err("none", {})

\* error?.message?.includes(k)
Includes(e, k) == e.hasMessage /\ k \in e.message

\* The failures the completion service is taken to raise: one per way of
\* being classified, two realistic combined ones and two fatal ones.
ServiceErrors ==
    { Err("429", {}), Err("503", {}), Err("500", {}),
      Err("none", {"429"}), Err("none", {"503"}),
      Err("none", {"RESOURCE_EXHAUSTED"}), Err("none", {"UNAVAILABLE"}),
      Err("none", {"overloaded"}),
      Err("429", {"429", "RESOURCE_EXHAUSTED"}),
      Err("503", {"503", "UNAVAILABLE", "overloaded"}),
      BareError }


(***************************************************************************)
(* retryWithBackoff: classification and backoff                            *)
(***************************************************************************)
MaxRetries == 3
RateLimitBase == 3500
OverloadBase == 1500

IsRateLimit(e) == Includes(e, "429") \/ e.status = "429"

IsServerOverload(e) == Includes(e, "503") \/ e.status = "503"

\* a classification that also retries internal server errors
IsRetryableAlso500(e) ==
    \/ IsRateLimit(e)
    \/ IsServerOverload(e)
    \/ Includes(e, "RESOURCE_EXHAUSTED")
    \/ Includes(e, "UNAVAILABLE")
    \/ Includes(e, "overloaded")
    \/ e.status = "500"

IsRetryable(e) ==
    \/ IsRateLimit(e)
    \/ IsServerOverload(e)
    \/ Includes(e, "RESOURCE_EXHAUSTED")
    \/ Includes(e, "UNAVAILABLE")
    \/ Includes(e, "overloaded")

RECURSIVE Pow2(_)
Pow2(n) == IF n = 0 THEN 1 ELSE 2 * Pow2(n - 1)

\* a backoff that gives rate limits no longer a cool-down than overloads
BackoffBaseUniform(e) == OverloadBase

\* const backoffBase = isRateLimit ? 3500 : 1500
BackoffBase(e) == IF IsRateLimit(e) THEN RateLimitBase ELSE OverloadBase

\* a backoff that forgets the exponent
BackoffDelayFlat(e, att) == BackoffBase(e)

\* const delay = backoffBase * Math.pow(2, attempt)
BackoffDelay(e, att) == BackoffBase(e) * Pow2(att)

\* an attempt ceiling that is off by one
GivesUpEarly(e, att) == ~IsRetryable(e) \/ att = MaxRetries - 2

\* if (!isRetryable || attempt === maxRetries - 1) throw error
GivesUp(e, att) == ~IsRetryable(e) \/ att = MaxRetries - 1

\* a throw that wraps the failure in a new Error
RethrownWrapped(error) == GenericError

\* what that throw raises
Rethrown(error) == error

(***************************************************************************)
(* gradeProveIt: the operation handed to retryWithBackoff                  *)
(***************************************************************************)
MaxScoreVal == 2

\* a result item as the service sends it; the code passes items through
ResultItems == [correct : BOOLEAN, followUpQuestion : {Null, JStr}]

ResultValues == {Undefined, JStr} \cup
    {[t |-> "array", items |-> <<>>]} \cup
    {[t |-> "array", items |-> <<it>>] : it \in ResultItems}

ScoreValues == {Undefined, Null, JStr} \cup {JNum(n) : n \in 0..MaxScoreVal}

\* messages of the SyntaxError JSON.parse raises: it quotes the input text
GarbageMessages == {{}, {"503"}}

\* response.text of the grading request
GradeBodies ==
    {[kind |-> "empty"], [kind |-> "null"]} \cup
    {[kind |-> "garbage", message |-> m] : m \in GarbageMessages} \cup
    {[kind |-> "object", totalScore |-> ts, maxScore |-> ms, results |-> rs] :
        ts \in ScoreValues, ms \in ScoreValues, rs \in ResultValues}

ServiceFailures == {[kind |-> "error", err |-> e] : e \in ServiceErrors}

GradeOutcomes == ServiceFailures \cup {[kind |-> "text", body |-> b] : b \in GradeBodies}

Threw(e) == [ok |-> FALSE, error |-> e]
Returned(v) == [ok |-> TRUE, value |-> v]

\* const raw = response.text || "{}"
GradeRaw(body) ==
    IF body.kind = "empty"
    THEN [kind |-> "object", totalScore |-> Undefined, maxScore |-> Undefined,
          results |-> Undefined]
    ELSE body

\* a grade whose maxScore falls back to 0 instead of the number of questions
GradeOfZeroMax(parsed, nQuestions) ==
    [totalScore |-> Number(Coalesce(parsed.totalScore, JNum(0))),
     maxScore   |-> Number(Coalesce(parsed.maxScore, JNum(0))),
     results    |-> IF parsed.results.t = "array" THEN parsed.results.items ELSE <<>>]

\* the object literal the operation returns, from the parsed response
GradeOf(parsed, nQuestions) ==
    [totalScore |-> Number(Coalesce(parsed.totalScore, JNum(0))),
     maxScore   |-> Number(Coalesce(parsed.maxScore, JNum(nQuestions))),
     results    |-> IF parsed.results.t = "array" THEN parsed.results.items ELSE <<>>]

\* one invocation of the operation on service outcome o
GradeFn(o, nQuestions) ==
    IF o.kind = "error" THEN Threw(o.err)
    ELSE LET raw == GradeRaw(o.body) IN
         CASE raw.kind = "garbage" -> Threw(Err("none", raw.message))  \* SyntaxError
           [] raw.kind = "null" -> Threw(GenericError)                 \* TypeError
           [] OTHER -> Returned(GradeOf(raw, nQuestions))


(***************************************************************************)
(* generateProveItQuestions: cleanup of the parsed response                *)
(* Strings are sequences of characters, so that trim() does something.     *)
(***************************************************************************)
JText(s) == [t |-> "text", s |-> s]
JArr(items) == [t |-> "array", items |-> items]

ProveItLimit == 3

RECURSIVE TrimStart(_)
TrimStart(s) == IF s # <<>> /\ Head(s) = " " THEN TrimStart(Tail(s)) ELSE s

RECURSIVE TrimEnd(_)
TrimEnd(s) ==
    IF s # <<>> /\ s[Len(s)] = " " THEN TrimEnd(SubSeq(s, 1, Len(s) - 1)) ELSE s

\* s.trim()
Trim(s) == TrimEnd(TrimStart(s))

\* String(x || "")
StringOrEmpty(x) == IF x.t = "text" THEN x.s ELSE <<>>

\* the .map() callback of the cleanup
CleanQuestion(q) ==
    [id            |-> Trim(StringOrEmpty(q.id)),
     type          |-> IF q.type = "scenario" THEN "scenario" ELSE "short",
     question      |-> Trim(StringOrEmpty(q.question)),
     answerKey     |-> Trim(StringOrEmpty(q.answerKey)),
     sourceCardIds |-> IF q.sourceCardIds.t = "array" THEN q.sourceCardIds.items ELSE <<>>]

\* a filter that forgets the source cards
KeepQuestionAnySources(q) ==
    /\ q.id # <<>>
    /\ q.question # <<>>
    /\ q.answerKey # <<>>

\* the .filter() callback: q.id && q.question && q.answerKey && q.sourceCardIds.length
KeepQuestion(q) ==
    /\ q.id # <<>>
    /\ q.question # <<>>
    /\ q.answerKey # <<>>
    /\ Len(q.sourceCardIds) # 0

\* .filter(q => q.id && q.question && q.answerKey && q.sourceCardIds.length)
RECURSIVE FilterQuestions(_)
FilterQuestions(s) ==
    IF s = <<>> THEN <<>>
    ELSE IF KeepQuestion(Head(s)) THEN <<Head(s)>> \o FilterQuestions(Tail(s))
         ELSE FilterQuestions(Tail(s))

\* .slice(0, n)
Slice0(s, n) == SubSeq(s, 1, IF Len(s) < n THEN Len(s) ELSE n)

\* parsed.map(...).filter(...).slice(0, 3)
CleanupQuestions(entries) ==
    Slice0(FilterQuestions([i \in 1..Len(entries) |-> CleanQuestion(entries[i])]),
           ProveItLimit)

\* entries the service may put in the array
GoodA == [id |-> JText(<<" ", "a">>), type |-> "short", question |-> JText(<<"q">>),
          answerKey |-> JText(<<"k", " ">>), sourceCardIds |-> JArr(<< <<"c">> >>)]
GoodB == [id |-> JText(<<"b">>), type |-> "scenario", question |-> JText(<<"q", " ", "q">>),
          answerKey |-> JText(<<"k">>), sourceCardIds |-> JArr(<< <<"c">>, <<"d">> >>)]
BadEntries ==
    { [GoodA EXCEPT !.id = Undefined],
      [GoodA EXCEPT !.id = JText(<<" ">>)],
      [GoodB EXCEPT !.question = JText(<<>>)],
      [GoodB EXCEPT !.answerKey = Null],
      [GoodA EXCEPT !.sourceCardIds = Undefined],
      [GoodB EXCEPT !.sourceCardIds = JArr(<<>>)] }
\* a null element: reading q.id of it raises a TypeError
NullEntry == [id |-> Null, type |-> "null", question |-> Null, answerKey |-> Null,
              sourceCardIds |-> Null, isNull |-> TRUE]
IsNullEntry(q) == "isNull" \in DOMAIN q

RawEntries == {GoodA, GoodB} \cup BadEntries \cup {NullEntry}

\* response.text of the question request, for arrays over a set of entries
RECURSIVE SeqsUpTo(_, _)
SeqsUpTo(S, n) ==
    IF n = 0 THEN {<<>>}
    ELSE LET shorter == SeqsUpTo(S, n - 1) IN
         shorter \cup {Append(s, x) : s \in {t \in shorter : Len(t) = n - 1}, x \in S}

QuestionBodies(S, n) ==
    {[kind |-> "empty"], [kind |-> "garbage"], [kind |-> "object"]} \cup
    {[kind |-> "array", entries |-> es] : es \in SeqsUpTo(S, n)}

QuestionOutcomes(S, n) ==
    ServiceFailures \cup {[kind |-> "text", body |-> b] : b \in QuestionBodies(S, n)}

\* generateProveItQuestions on service outcome o: every failure yields []
GenerateProveItQuestions(o) ==
    IF o.kind = "error" THEN <<>>
    ELSE CASE o.body.kind = "empty" -> <<>>        \* "[]"
           [] o.body.kind = "garbage" -> <<>>      \* SyntaxError, caught
           [] o.body.kind = "object" -> <<>>       \* !Array.isArray(parsed)
           [] OTHER ->
                IF \E i \in 1..Len(o.body.entries) : IsNullEntry(o.body.entries[i])
                THEN <<>>                          \* TypeError, caught
                ELSE CleanupQuestions(o.body.entries)


(***************************************************************************)
(* ProveItModal                                                            *)
(***************************************************************************)
MaxReviewed == 2        \* cards handed to the modal
MaxModalEntries == 2    \* entries of a question response, in SpecGrade

\* ids the cleanup can produce from ModalEntries, and what a user may type
QuestionIds == {<<"a">>, <<"b">>}
AnswerTexts == {<<>>, <<" ">>, <<"x">>}
ModalEntries == {GoodA, GoodB, [GoodA EXCEPT !.sourceCardIds = JArr(<<>>)]}

NoAnswers == [id \in QuestionIds |-> <<>>]
NoCall == [questions |-> <<>>, answers |-> NoAnswers]

\* useMemo: questions.length > 0 and every (answers[q.id] || "").trim() is non-empty
\* a check that takes a blank answer for an answer
canSubmitUntrimmed ==
    /\ Len(questions) # 0
    /\ \A i \in 1..Len(questions) : answers[questions[i].id] # <<>>

\* useMemo: questions.length && questions.every(q => (answers[q.id] || "").trim().length > 0)
canSubmit ==
    /\ Len(questions) # 0
    /\ \A i \in 1..Len(questions) : Trim(answers[questions[i].id]) # <<>>

\* the text submit's catch block shows
GradingErrorText(e) ==
    IF Includes(e, "overloaded") THEN JText("Model is overloaded. Please try again.")
    ELSE IF Includes(e, "503") THEN JText("Service temporarily unavailable. Please retry.")
    ELSE JText("Grading failed. Please try again.")

IdleFrame ==
    /\ retryPc = "idle" /\ attempt = 0 /\ lastError = Undefined /\ fnCalls = 0
    /\ sleeps = <<>> /\ fnErrors = <<>> /\ lastResponse = Undefined
    /\ retryResult = Undefined /\ retryThrown = Undefined

\* the frame of a finished call is gone
ResetFrame ==
    /\ retryPc' = "idle" /\ attempt' = 0 /\ lastError' = Undefined /\ fnCalls' = 0
    /\ sleeps' = <<>> /\ fnErrors' = <<>> /\ lastResponse' = Undefined
    /\ retryResult' = Undefined /\ retryThrown' = Undefined

InitModal ==
    /\ isOpen = FALSE /\ step = "question" /\ loading = FALSE /\ questions = <<>>
    /\ answers = NoAnswers /\ grade = Null /\ gradingError = Null
    /\ modalPc = "idle" /\ callArgs = NoCall

\* useEffect on [isOpen, reviewedCards]: the modal is opened with n reviewed cards
OpenModal ==
    /\ UNCHANGED nonGradeVars
    /\ ~isOpen /\ modalPc = "idle"
    /\ \E n \in 0..MaxReviewed :
        /\ isOpen' = TRUE
        /\ step' = "question"
        /\ answers' = NoAnswers
        /\ grade' = Null
        /\ gradingError' = Null
        /\ IF n = 0
           THEN questions' = <<>> /\ loading' = FALSE /\ modalPc' = "idle"
           ELSE questions' = questions /\ loading' = TRUE /\ modalPc' = "generating"
    /\ UNCHANGED <<callArgs, retryVars>>

\* the awaited generateProveItQuestions call settles
QuestionsArrive ==
    /\ UNCHANGED nonGradeVars
    /\ modalPc = "generating"
    /\ \E o \in QuestionOutcomes(ModalEntries, MaxModalEntries) :
        questions' = GenerateProveItQuestions(o)
    /\ loading' = FALSE
    /\ modalPc' = "idle"
    /\ UNCHANGED <<isOpen, step, answers, grade, gradingError, callArgs, retryVars>>

\* onChange of a question's textarea (rendered when step is "question" and not loading)
TypeAnswer ==
    /\ UNCHANGED nonGradeVars
    /\ isOpen /\ step = "question" /\ ~loading
    /\ \E i \in 1..Len(questions), txt \in AnswerTexts :
        answers' = [answers EXCEPT ![questions[i].id] = txt]
    /\ UNCHANGED <<isOpen, step, loading, questions, grade, gradingError, modalPc,
                   callArgs, retryVars>>

\* onClose
CloseModal ==
    /\ UNCHANGED nonGradeVars
    /\ isOpen /\ modalPc = "idle"
    /\ isOpen' = FALSE
    /\ UNCHANGED <<step, loading, questions, answers, grade, gradingError, modalPc,
                   callArgs, retryVars>>

\* click on Submit (disabled while !canSubmit || loading): submit() up to its await,
\* gradeProveIt and retryWithBackoff up to the first await fn()
Submit ==
    /\ UNCHANGED nonGradeVars
    /\ isOpen /\ step = "question" /\ ~loading /\ modalPc = "idle"
    /\ canSubmit
    /\ loading' = TRUE
    /\ gradingError' = Null
    /\ modalPc' = "grading"
    /\ callArgs' = [questions |-> questions, answers |-> answers]
    /\ retryPc' = "fn" /\ attempt' = 0 /\ fnCalls' = 1
    /\ UNCHANGED <<isOpen, step, questions, answers, grade, lastError, sleeps, fnErrors,
                   lastResponse, retryResult, retryThrown>>

\* submit() is invoked while canSubmit is false: if (!canSubmit) return
SubmitRefused ==
    /\ isOpen /\ step = "question" /\ modalPc = "idle"
    /\ ~canSubmit
    /\ UNCHANGED vars

\* retryWithBackoff: the awaited fn() settles with service outcome o
RetryAttempt ==
    /\ UNCHANGED nonGradeVars
    /\ retryPc = "fn"
    /\ \E o \in GradeOutcomes :
        LET r == GradeFn(o, Len(callArgs.questions)) IN
        /\ lastResponse' = o
        /\ IF r.ok
           THEN /\ retryPc' = "returned"
                /\ retryResult' = r.value
                /\ UNCHANGED <<lastError, fnErrors, sleeps, retryThrown>>
           ELSE /\ lastError' = r.error
                /\ fnErrors' = Append(fnErrors, r.error)
                /\ IF GivesUp(r.error, attempt)
                   THEN /\ retryPc' = "thrown"
                        /\ retryThrown' = Rethrown(r.error)
                        /\ UNCHANGED sleeps
                   ELSE /\ retryPc' = "sleep"
                        /\ sleeps' = Append(sleeps, BackoffDelay(r.error, attempt))
                        /\ UNCHANGED retryThrown
                /\ UNCHANGED retryResult
    /\ UNCHANGED <<attempt, fnCalls, modalVars>>

\* retryWithBackoff: the backoff timer fires, attempt++, next iteration
RetryWake ==
    /\ UNCHANGED nonGradeVars
    /\ retryPc = "sleep"
    /\ attempt' = attempt + 1
    /\ IF attempt + 1 < MaxRetries
       THEN retryPc' = "fn" /\ fnCalls' = fnCalls + 1 /\ UNCHANGED retryThrown
       ELSE retryPc' = "thrown" /\ retryThrown' = lastError /\ UNCHANGED fnCalls
    /\ UNCHANGED <<lastError, sleeps, fnErrors, lastResponse, retryResult, modalVars>>

\* gradeProveIt returns or rethrows; submit() resumes after its await
SubmitSettles ==
    /\ UNCHANGED nonGradeVars
    /\ modalPc = "grading"
    /\ retryPc \in {"returned", "thrown"}
    /\ IF retryPc = "returned"
       THEN grade' = retryResult /\ step' = "results" /\ UNCHANGED gradingError
       ELSE gradingError' = GradingErrorText(retryThrown) /\ UNCHANGED <<grade, step>>
    /\ loading' = FALSE
    /\ modalPc' = "idle"
    /\ callArgs' = NoCall
    /\ ResetFrame
    /\ UNCHANGED <<isOpen, questions, answers>>



(***************************************************************************)
(* normalizeMode and getSummaryControls.  A label is a sequence of         *)
(* characters.                                                             *)
(***************************************************************************)
LowerCase == <<"a", "b", "c", "d", "e", "f", "g", "h", "i", "j", "k", "l", "m",
               "n", "o", "p", "q", "r", "s", "t", "u", "v", "w", "x", "y", "z">>
UpperCase == <<"A", "B", "C", "D", "E", "F", "G", "H", "I", "J", "K", "L", "M",
               "N", "O", "P", "Q", "R", "S", "T", "U", "V", "W", "X", "Y", "Z">>

ToLowerChar(c) ==
    IF \E i \in 1..Len(UpperCase) : UpperCase[i] = c
    THEN LowerCase[CHOOSE i \in 1..Len(UpperCase) : UpperCase[i] = c]
    ELSE c

\* raw.toLowerCase()
ToLowerCase(s) == [i \in 1..Len(s) |-> ToLowerChar(s[i])]

IsLowerLetter(c) == \E i \in 1..Len(LowerCase) : LowerCase[i] = c

\* raw.replace(/[^a-z]/g, "")
RECURSIVE StripNonLetters(_)
StripNonLetters(s) ==
    IF s = <<>> THEN <<>>
    ELSE IF IsLowerLetter(Head(s)) THEN <<Head(s)>> \o StripNonLetters(Tail(s))
         ELSE StripNonLetters(Tail(s))

\* s.includes(sub)
StrIncludes(s, sub) ==
    \E i \in 0..(Len(s) - Len(sub)) : SubSeq(s, i + 1, i + Len(sub)) = sub

\* String(mode ?? "")
ModeString(mode) == IF mode.t = "text" THEN mode.s ELSE <<>>

\* a normaliser that tries the three names in the opposite order
normalizeModeReversed(mode) ==
    LET cleaned == StripNonLetters(ToLowerCase(ModeString(mode))) IN
    IF StrIncludes(cleaned, <<"d", "e", "t", "a", "i", "l", "e", "d">>) THEN "detailed"
    ELSE IF StrIncludes(cleaned, <<"b", "u", "l", "l", "e", "t">>) THEN "bullet"
    ELSE IF StrIncludes(cleaned, <<"t", "l", "d", "r">>) THEN "tldr"
    ELSE "bullet"

normalizeMode(mode) ==
    LET cleaned == StripNonLetters(ToLowerCase(ModeString(mode))) IN
    IF StrIncludes(cleaned, <<"t", "l", "d", "r">>) THEN "tldr"
    ELSE IF StrIncludes(cleaned, <<"b", "u", "l", "l", "e", "t">>) THEN "bullet"
    ELSE IF StrIncludes(cleaned, <<"d", "e", "t", "a", "i", "l", "e", "d">>) THEN "detailed"
    ELSE "bullet"

getSummaryControls(mode) ==
    LET normalized == normalizeMode(mode) IN
    IF normalized = "tldr"
    THEN [thinkingBudget |-> 1024, maxOutputTokens |-> 2048, prompt |-> "tldr"]
    ELSE IF normalized = "bullet"
    THEN [thinkingBudget |-> 2048, maxOutputTokens |-> 4096, prompt |-> "bullet"]
    ELSE [thinkingBudget |-> 4096, maxOutputTokens |-> 8192, prompt |-> "detailed"]

\* the labels callers pass (the SummaryMode values, 'TLDR' and 'BULLET') and others
ModeLabels ==
    { Undefined,
      JText(<<>>),
      JText(<<"t", "l", "d", "r">>),
      JText(<<"T", "L", "D", "R">>),
      JText(<<"t", "l", ";", "d", "r">>),
      JText(<<"b", "u", "l", "l", "e", "t">>),
      JText(<<"B", "U", "L", "L", "E", "T">>),
      JText(<<"d", "e", "t", "a", "i", "l", "e", "d">>),
      JText(<<"D", "e", "t", "a", "i", "l", "e", "d", "!">>),
      JText(<<"d", "e", "t", "a", "i", "l", "e", "d", "-", "t", "l", "d", "r">>),
      JText(<<"b", "u", "l", "l", "e", "t", " ", "T", "L", "D", "R">>),
      JText(<<"d", "e", "t", "a", "i", "l", "e", "d", " ", "b", "u", "l", "l", "e", "t", "s">>),
      JText(<<"s", "h", "o", "r", "t">>) }

(***************************************************************************)
(* extractPdfText and generateSummary                                      *)
(***************************************************************************)
PageCap == 40
MaxDocPages == 41

MimeTypes == {"application/pdf", "image/png", "text/plain"}

FlashModel == "gemini-3-flash-preview"

\* response.text of a summary request: absent, empty or prose
SummaryTexts == {Undefined, JText(""), JText("summary one"), JText("summary two")}

SummaryOutcomes == ServiceFailures \cup {[kind |-> "text", text |-> t] : t \in SummaryTexts}

Truthy(text) == text.t = "text" /\ text.s # ""

NoSummaryGenerated == JText("No summary generated.")
\* new Error("Failed to generate summary. The file might be too large or complex.")
SummaryFailed == GenericError

\* a page limit that is never applied
MaxPagesOfUncapped(numPages) == numPages

\* const maxPages = Math.min(doc.numPages, 40)
MaxPagesOf(numPages) == IF numPages < PageCap THEN numPages ELSE PageCap

\* the request generateSummary builds from textContext (a sequence of pages)
SummaryRequest(textContext, mode) ==
    LET c == getSummaryControls(mode) IN
    [model |-> FlashModel,
     parts |-> IF textContext # <<>> THEN "prompt+text" ELSE "prompt+inlineData",
     prompt |-> c.prompt,
     thinkingBudget |-> c.thinkingBudget,
     maxOutputTokens |-> c.maxOutputTokens]

\* return response.text || "No summary generated."
SummaryValue(text) == IF Truthy(text) THEN text ELSE NoSummaryGenerated

NoArgs == [mimeType |-> "", mode |-> Undefined, numPages |-> 0]

InitSummary ==
    /\ sumPc = "idle" /\ sumArgs = NoArgs /\ sumPage = 0 /\ sumFullText = <<>>
    /\ sumRequests = <<>> /\ sumOutcome = Undefined /\ sumResult = Undefined
    /\ sumThrown = Undefined

\* the rest of generateSummary once textContext is known, up to the await
IssueSummaryRequest(textContext) ==
    /\ sumRequests' = Append(sumRequests, SummaryRequest(textContext, sumArgs'.mode))
    /\ sumPc' = "awaiting"

\* generateSummary up to its first await, for a document of n pages
StartGenerateSummary(mime, mode, n) ==
    /\ sumArgs' = [mimeType |-> mime, mode |-> mode,
                   numPages |-> IF mime = "application/pdf" THEN n ELSE 0]
    /\ IF mime = "application/pdf"
       THEN sumPc' = "open" /\ UNCHANGED sumRequests
       ELSE IssueSummaryRequest(<<>>)
    /\ UNCHANGED <<sumPage, sumFullText, sumOutcome, sumResult, sumThrown>>

\* generateSummary(fileBase64, mimeType, mode) is called
CallGenerateSummary ==
    /\ UNCHANGED nonSummaryVars
    /\ sumPc = "idle"
    /\ \E mime \in MimeTypes, mode \in ModeLabels, n \in 0..MaxDocPages :
        StartGenerateSummary(mime, mode, n)

\* extractPdfText: atob and getDocument succeed
ExtractOpen ==
    /\ UNCHANGED nonSummaryVars
    /\ sumPc = "open"
    /\ UNCHANGED sumArgs
    /\ IF MaxPagesOf(sumArgs.numPages) >= 1
       THEN sumPc' = "pages" /\ sumPage' = 1 /\ UNCHANGED sumRequests
       ELSE IssueSummaryRequest(<<>>) /\ UNCHANGED sumPage
    /\ UNCHANGED <<sumFullText, sumOutcome, sumResult, sumThrown>>

\* extractPdfText: page i is read and appended; after the last page fullText is returned
ExtractPage ==
    /\ UNCHANGED nonSummaryVars
    /\ sumPc = "pages"
    /\ UNCHANGED sumArgs
    /\ sumFullText' = Append(sumFullText, sumPage)
    /\ sumPage' = sumPage + 1
    /\ IF sumPage + 1 <= MaxPagesOf(sumArgs.numPages)
       THEN UNCHANGED <<sumPc, sumRequests>>
       ELSE IssueSummaryRequest(sumFullText')
    /\ UNCHANGED <<sumOutcome, sumResult, sumThrown>>

\* extractPdfText: atob, getDocument, getPage or getTextContent throws; catch returns ""
ExtractFails ==
    /\ UNCHANGED nonSummaryVars
    /\ sumPc \in {"open", "pages"}
    /\ UNCHANGED sumArgs
    /\ sumFullText' = <<>>
    /\ IssueSummaryRequest(<<>>)
    /\ UNCHANGED <<sumPage, sumOutcome, sumResult, sumThrown>>

\* the awaited generateContent settles
SummaryResponds ==
    /\ UNCHANGED nonSummaryVars
    /\ sumPc = "awaiting"
    /\ \E o \in SummaryOutcomes :
        /\ sumOutcome' = o
        /\ IF o.kind = "error"
           THEN sumPc' = "thrown" /\ sumThrown' = SummaryFailed /\ UNCHANGED sumResult
           ELSE sumPc' = "returned" /\ sumResult' = SummaryValue(o.text)
                /\ UNCHANGED sumThrown
    /\ UNCHANGED <<sumArgs, sumPage, sumFullText, sumRequests>>

\* the frame of a finished generateSummary call is gone
ResetSummary ==
    /\ sumPc' = "idle" /\ sumArgs' = NoArgs /\ sumPage' = 0 /\ sumFullText' = <<>>
    /\ sumRequests' = <<>> /\ sumOutcome' = Undefined /\ sumResult' = Undefined
    /\ sumThrown' = Undefined

\* the caller has taken the outcome; the frame is gone
SummaryCallEnds ==
    /\ UNCHANGED nonSummaryVars
    /\ sumPc \in {"returned", "thrown"}
    /\ ResetSummary

NextSummary ==
    \/ CallGenerateSummary
    \/ ExtractOpen
    \/ ExtractPage
    \/ ExtractFails
    \/ SummaryResponds
    \/ SummaryCallEnds

(***************************************************************************)
(* generateQuiz                                                            *)
(***************************************************************************)
MaxCards == 4
MinQuizCards == 3

\* a string field is truthy when it is a non-empty string
TruthyText(x) == x.t = "text" /\ x.s # <<>>

CardQuestions == {Undefined, JText(<<>>), JText(<<"q">>)}
CardAnswers == {JText(<<>>), JText(<<"a">>)}
Cards == [question : CardQuestions, answer : CardAnswers]
QuizStyles == {"standard", "scenario", "basic"}

\* f => f.question && f.answer, with only the question checked
IsValidCardQuestionOnly(f) == TruthyText(f.question)

\* f => f.question && f.answer
IsValidCard(f) == TruthyText(f.question) /\ TruthyText(f.answer)

\* flashcards.filter(f => f.question && f.answer)
RECURSIVE FilterCards(_)
FilterCards(s) ==
    IF s = <<>> THEN <<>>
    ELSE IF IsValidCard(Head(s)) THEN <<Head(s)>> \o FilterCards(Tail(s))
         ELSE FilterCards(Tail(s))

styleInstructions(style) ==
    IF style = "scenario" THEN "Create 5 SCENARIO-BASED questions."
    ELSE IF style = "basic" THEN "Create 5 simple, direct definition-based questions."
    ELSE "Create 5 standard multiple-choice questions."

\* quiz questions as the service may send them
QuizQ(nOptions, correctAmongOptions) ==
    [question |-> "Q", options |-> [i \in 1..nOptions |-> i],
     correctAnswer |-> IF correctAmongOptions THEN 1 ELSE 0, explanation |-> "E"]
FiveGood == [i \in 1..5 |-> QuizQ(4, TRUE)]
QuizPayloads ==
    { <<>>, FiveGood, SubSeq(FiveGood, 1, 4),
      [FiveGood EXCEPT ![2] = QuizQ(3, TRUE)],
      [FiveGood EXCEPT ![5] = QuizQ(4, FALSE)] }

QuizOutcomes ==
    ServiceFailures \cup
    {[kind |-> "text", body |-> [kind |-> "empty"]],
     [kind |-> "text", body |-> [kind |-> "garbage"]]} \cup
    {[kind |-> "text", body |-> [kind |-> "json", value |-> v]] : v \in QuizPayloads}

\* JSON.parse(response.text || "[]"), with every failure caught and turned into []
QuizValue(o) ==
    IF o.kind = "error" THEN <<>>
    ELSE IF o.body.kind = "json" THEN o.body.value ELSE <<>>

InitQuiz ==
    /\ quizPc = "idle" /\ quizArgs = [flashcards |-> <<>>, style |-> "standard"]
    /\ quizRequests = <<>> /\ quizOutcome = Undefined /\ quizResult = <<>>

\* generateQuiz(flashcards, style) is called: up to the early return or the await
CallGenerateQuiz ==
    /\ UNCHANGED nonQuizVars
    /\ quizPc = "idle"
    /\ \E cards \in SeqsUpTo(Cards, MaxCards), style \in QuizStyles :
        LET validCards == FilterCards(cards) IN
        /\ quizArgs' = [flashcards |-> cards, style |-> style]
        /\ IF Len(validCards) < MinQuizCards
           THEN quizPc' = "returned" /\ quizResult' = <<>> /\ UNCHANGED quizRequests
           ELSE /\ quizPc' = "awaiting"
                /\ quizRequests' = Append(quizRequests,
                       [model |-> FlashModel, task |-> styleInstructions(style),
                        context |-> validCards])
                /\ UNCHANGED quizResult
    /\ UNCHANGED quizOutcome

\* the awaited generateContent settles
QuizResponds ==
    /\ UNCHANGED nonQuizVars
    /\ quizPc = "awaiting"
    /\ \E o \in QuizOutcomes :
        /\ quizOutcome' = o
        /\ quizResult' = QuizValue(o)
    /\ quizPc' = "returned"
    /\ UNCHANGED <<quizArgs, quizRequests>>

\* the caller has taken the list; the frame is gone
QuizCallEnds ==
    /\ UNCHANGED nonQuizVars
    /\ quizPc = "returned"
    /\ quizPc' = "idle" /\ quizArgs' = [flashcards |-> <<>>, style |-> "standard"]
    /\ quizRequests' = <<>> /\ quizOutcome' = Undefined /\ quizResult' = <<>>

NextQuiz == CallGenerateQuiz \/ QuizResponds \/ QuizCallEnds

(***************************************************************************)
(* generateProveItQuestions as a call of its own                           *)
(***************************************************************************)
MaxReturned == 4

InitQuestions ==
    /\ pqPc = "idle" /\ pqCards = 0 /\ pqRequests = 0 /\ pqOutcome = Undefined
    /\ pqResult = <<>>

\* generateProveItQuestions(cards) is called: up to the await
CallGenerateProveItQuestions ==
    /\ UNCHANGED nonQuestionVars
    /\ pqPc = "idle"
    /\ \E n \in 1..MaxReviewed : pqCards' = n
    /\ pqRequests' = pqRequests + 1
    /\ pqPc' = "awaiting"
    /\ UNCHANGED <<pqOutcome, pqResult>>

\* the awaited generateContent settles
ProveItQuestionsRespond ==
    /\ UNCHANGED nonQuestionVars
    /\ pqPc = "awaiting"
    /\ \E o \in QuestionOutcomes(RawEntries, MaxReturned) :
        /\ pqOutcome' = o
        /\ pqResult' = GenerateProveItQuestions(o)
    /\ pqPc' = "returned"
    /\ UNCHANGED <<pqCards, pqRequests>>

\* the caller has taken the list; the frame is gone
ProveItQuestionsCallEnds ==
    /\ UNCHANGED nonQuestionVars
    /\ pqPc = "returned"
    /\ pqPc' = "idle" /\ pqCards' = 0 /\ pqRequests' = 0 /\ pqOutcome' = Undefined
    /\ pqResult' = <<>>

NextQuestions ==
    \/ CallGenerateProveItQuestions
    \/ ProveItQuestionsRespond
    \/ ProveItQuestionsCallEnds

(***************************************************************************)
(* generateFlashcards                                                      *)
(***************************************************************************)
Card(k) == [question |-> k, answer |-> k, source |-> "S"]
TenCards == [k \in 1..10 |-> Card(k)]

\* the values JSON.parse gives for the response text of a flashcard request
CardPayloads == {<<>>, TenCards, SubSeq(TenCards, 1, 3)}

CardOutcomes ==
    ServiceFailures \cup
    {[kind |-> "text", body |-> [kind |-> "empty"]],
     [kind |-> "text", body |-> [kind |-> "garbage"]]} \cup
    {[kind |-> "text", body |-> [kind |-> "json", value |-> v]] : v \in CardPayloads}

\* the SyntaxError of JSON.parse
ParseError == GenericError

\* the try block: await generateContent(...); return JSON.parse(response.text || "[]")
TryCards(o) ==
    IF o.kind = "error" THEN Threw(o.err)
    ELSE IF o.body.kind = "empty" THEN Returned(<<>>)
    ELSE IF o.body.kind = "garbage" THEN Threw(ParseError)
    ELSE Returned(o.body.value)

\* a catch block that lets the error through
CatchRethrows(r) == r

\* catch (error) { console.error(...); return []; }
CatchReturnsEmpty(r) == IF r.ok THEN r ELSE Returned(<<>>)

\* generateFlashcards on service outcome o
GenerateFlashcards(o) == CatchReturnsEmpty(TryCards(o))

\* the request generateFlashcards builds
FlashcardsRequest(summaryText) ==
    [model |-> FlashModel, parts |-> "prompt+summary", summary |-> summaryText]

\* the strings callers pass as summaryText
SummaryArguments == {JText(""), JText("summary one"), NoSummaryGenerated}

InitFlashcards ==
    /\ fcPc = "idle" /\ fcText = Undefined /\ fcRequests = <<>>
    /\ fcOutcome = Undefined /\ fcResult = Undefined

\* generateFlashcards up to its await
StartGenerateFlashcards(summaryText) ==
    /\ fcText' = summaryText
    /\ fcRequests' = Append(fcRequests, FlashcardsRequest(summaryText))
    /\ fcPc' = "awaiting"
    /\ UNCHANGED <<fcOutcome, fcResult>>

\* the frame of a finished generateFlashcards call is gone
ResetFlashcards ==
    /\ fcPc' = "idle" /\ fcText' = Undefined /\ fcRequests' = <<>>
    /\ fcOutcome' = Undefined /\ fcResult' = Undefined

\* generateFlashcards(summaryText) is called
CallGenerateFlashcards ==
    /\ UNCHANGED nonFlashcardVars
    /\ fcPc = "idle"
    /\ \E t \in SummaryArguments : StartGenerateFlashcards(t)

\* the awaited generateContent settles
FlashcardsRespond ==
    /\ UNCHANGED nonFlashcardVars
    /\ fcPc = "awaiting"
    /\ \E o \in CardOutcomes :
        LET r == GenerateFlashcards(o) IN
        /\ fcOutcome' = o
        /\ IF r.ok
           THEN fcPc' = "returned" /\ fcResult' = r.value
           ELSE fcPc' = "thrown" /\ UNCHANGED fcResult
    /\ UNCHANGED <<fcText, fcRequests>>

\* the caller has taken the outcome; the frame is gone
FlashcardsCallEnds ==
    /\ UNCHANGED nonFlashcardVars
    /\ fcPc \in {"returned", "thrown"}
    /\ ResetFlashcards

(***************************************************************************)
(* generateFlashcardsFromDocument                                          *)
(***************************************************************************)
MaxCardDocPages == 2

ProModel == "gemini-3-pro-preview"

CardConfigs == {[targetCards |-> 5, difficulty |-> "easy"],
                [targetCards |-> 10, difficulty |-> "hard"]}

\* an extraction that is tried on every document that is not an image
IsNotImage(mimeType) == mimeType # "image/png"

\* if (mimeType === "application/pdf")
IsPdf(mimeType) == mimeType = "application/pdf"

\* a request that never carries the document itself
DocRequestTextOnly(textContext, config) ==
    [model |-> FlashModel, parts |-> "prompt+text",
     targetCards |-> config.targetCards, difficulty |-> config.difficulty]

\* model, prompt and parts of the direct request, from textContext (a sequence of pages)
DocRequest(textContext, config) ==
    [model |-> IF textContext # <<>> THEN FlashModel ELSE ProModel,
     parts |-> IF textContext # <<>> THEN "prompt+text" ELSE "prompt+inlineData",
     targetCards |-> config.targetCards,
     difficulty |-> config.difficulty]

NoDocArgs == [mimeType |-> "", numPages |-> 0, config |-> Undefined]

InitDocCards ==
    /\ dcPc = "idle" /\ dcArgs = NoDocArgs /\ dcPage = 0 /\ dcFullText = <<>>
    /\ dcText = <<>> /\ dcRequests = <<>> /\ dcOutcome = Undefined
    /\ dcResult = Undefined

\* the rest of generateFlashcardsFromDocument once textContext is known, up to the
\* await; the locals of extractPdfText are gone
IssueDirectRequest(textContext) ==
    /\ dcText' = textContext
    /\ dcPage' = 0 /\ dcFullText' = <<>>
    /\ dcRequests' = Append(dcRequests, DocRequest(textContext, dcArgs'.config))
    /\ dcPc' = "direct"

\* generateFlashcardsFromDocument(fileBase64, mimeType, config) is called
CallGenerateFlashcardsFromDocument ==
    /\ UNCHANGED <<nonDocCardVars, summaryVars, flashcardVars>>
    /\ dcPc = "idle" /\ sumPc = "idle" /\ fcPc = "idle"
    /\ \E mime \in MimeTypes, n \in 0..MaxCardDocPages, cfg \in CardConfigs :
        /\ dcArgs' = [mimeType |-> mime, numPages |-> IF IsPdf(mime) THEN n ELSE 0,
                      config |-> cfg]
        /\ IF IsPdf(mime)
           THEN dcPc' = "open" /\ UNCHANGED <<dcPage, dcFullText, dcText, dcRequests>>
           ELSE IssueDirectRequest(<<>>)
    /\ UNCHANGED <<dcOutcome, dcResult>>

\* extractPdfText: atob and getDocument succeed
DocExtractOpen ==
    /\ UNCHANGED <<nonDocCardVars, summaryVars, flashcardVars>>
    /\ dcPc = "open"
    /\ UNCHANGED dcArgs
    /\ IF MaxPagesOf(dcArgs.numPages) >= 1
       THEN dcPc' = "pages" /\ dcPage' = 1 /\ UNCHANGED <<dcFullText, dcText, dcRequests>>
       ELSE IssueDirectRequest(<<>>)
    /\ UNCHANGED <<dcOutcome, dcResult>>

\* extractPdfText: page i is read and appended; after the last page fullText is returned
DocExtractPage ==
    /\ UNCHANGED <<nonDocCardVars, summaryVars, flashcardVars>>
    /\ dcPc = "pages"
    /\ UNCHANGED dcArgs
    /\ IF dcPage + 1 <= MaxPagesOf(dcArgs.numPages)
       THEN /\ dcFullText' = Append(dcFullText, dcPage)
            /\ dcPage' = dcPage + 1
            /\ UNCHANGED <<dcPc, dcText, dcRequests>>
       ELSE IssueDirectRequest(Append(dcFullText, dcPage))
    /\ UNCHANGED <<dcOutcome, dcResult>>

\* extractPdfText: atob, getDocument, getPage or getTextContent throws; catch returns ""
DocExtractFails ==
    /\ UNCHANGED <<nonDocCardVars, summaryVars, flashcardVars>>
    /\ dcPc \in {"open", "pages"}
    /\ UNCHANGED dcArgs
    /\ IssueDirectRequest(<<>>)
    /\ UNCHANGED <<dcOutcome, dcResult>>

\* the awaited direct request settles: its cards are returned, or the catch block
\* calls generateSummary(fileBase64, mimeType, 'TLDR')
DirectResponds ==
    /\ UNCHANGED <<nonDocCardVars, flashcardVars>>
    /\ dcPc = "direct"
    /\ \E o \in CardOutcomes :
        LET r == TryCards(o) IN
        /\ dcOutcome' = o
        /\ IF r.ok
           THEN /\ dcPc' = "returned" /\ dcResult' = r.value
                /\ UNCHANGED summaryVars
           ELSE /\ dcPc' = "fallbackSummary" /\ UNCHANGED dcResult
                /\ StartGenerateSummary(dcArgs.mimeType, JText(<<"T", "L", "D", "R">>),
                                        dcArgs.numPages)
    /\ UNCHANGED <<dcArgs, dcPage, dcFullText, dcText, dcRequests>>

\* the awaited generateSummary settles: generateFlashcards(fallbackSummary) is called,
\* or the inner catch returns []
FallbackSummarySettles ==
    /\ UNCHANGED <<nonDocCardVars, summaryVars>>
    /\ dcPc = "fallbackSummary" /\ sumPc \in {"returned", "thrown"}
    /\ IF sumPc = "returned"
       THEN /\ StartGenerateFlashcards(sumResult)
            /\ dcPc' = "fallbackCards" /\ UNCHANGED dcResult
       ELSE /\ dcPc' = "returned" /\ dcResult' = <<>>
            /\ UNCHANGED flashcardVars
    /\ UNCHANGED <<dcArgs, dcPage, dcFullText, dcText, dcRequests, dcOutcome>>

\* the awaited generateFlashcards settles: its list is returned
FallbackCardsSettle ==
    /\ UNCHANGED <<nonDocCardVars, summaryVars, flashcardVars>>
    /\ dcPc = "fallbackCards" /\ fcPc \in {"returned", "thrown"}
    /\ dcPc' = "returned"
    /\ dcResult' = IF fcPc = "returned" THEN fcResult ELSE <<>>
    /\ UNCHANGED <<dcArgs, dcPage, dcFullText, dcText, dcRequests, dcOutcome>>

\* the caller has taken the list; the frames of the call are gone
DocCallEnds ==
    /\ UNCHANGED nonDocCardVars
    /\ dcPc = "returned"
    /\ dcPc' = "idle" /\ dcArgs' = NoDocArgs /\ dcPage' = 0 /\ dcFullText' = <<>>
    /\ dcText' = <<>> /\ dcRequests' = <<>> /\ dcOutcome' = Undefined
    /\ dcResult' = Undefined
    /\ ResetSummary
    /\ ResetFlashcards

NextDocCards ==
    \/ CallGenerateFlashcardsFromDocument
    \/ DocExtractOpen
    \/ DocExtractPage
    \/ DocExtractFails
    \/ DirectResponds
    \/ ExtractOpen
    \/ ExtractPage
    \/ ExtractFails
    \/ SummaryResponds
    \/ FallbackSummarySettles
    \/ FlashcardsRespond
    \/ FallbackCardsSettle
    \/ DocCallEnds

(***************************************************************************)
(* ProveItModal with several requests in flight.  The component stays      *)
(* mounted while isOpen is false (ResultView renders it unconditionally),  *)
(* its open effect has no cleanup, and neither await is guarded, so every  *)
(* response is applied to whatever state the component has on arrival.     *)
(***************************************************************************)
MaxSessions == 3         \* runs of the open effect
MaxInFlight == 2         \* requests awaited at the same time
MaxSessionEntries == 1   \* entries of a question response, in SpecSession

SessionEntries == {GoodA, GoodB}

\* the lists generateProveItQuestions can hand back
SessionQuestionLists ==
    {GenerateProveItQuestions(o) : o \in QuestionOutcomes(SessionEntries, MaxSessionEntries)}

\* a parsed grading response, and the errors gradeProveIt is taken to throw
SessionParsed ==
    [kind |-> "object", totalScore |-> JNum(1), maxScore |-> Undefined,
     results |-> Undefined]
SessionErrors ==
    {Err("500", {}), Err("none", {"503"}), Err("503", {"503", "UNAVAILABLE", "overloaded"})}

NoGradeCall == [session |-> 0, questions |-> <<>>, answers |-> NoAnswers]

QuestionRequest(k) ==
    [kind |-> "questions", session |-> k, questions |-> <<>>, answers |-> NoAnswers]
GradeRequest(k, qs, as) ==
    [kind |-> "grade", session |-> k, questions |-> qs, answers |-> as]

InitSession ==
    /\ session = 0 /\ inflight = {} /\ questionsFor = 0 /\ gradeFor = NoGradeCall

\* the body of the open effect for a pool of n cards, up to its await
OpenEffect(n) ==
    /\ session < MaxSessions
    /\ session' = session + 1
    /\ step' = "question"
    /\ answers' = NoAnswers
    /\ grade' = Null
    /\ gradeFor' = NoGradeCall
    /\ gradingError' = Null
    /\ IF n = 0
       THEN /\ questions' = <<>> /\ questionsFor' = session + 1
            /\ loading' = FALSE
            /\ UNCHANGED inflight
       ELSE /\ Cardinality(inflight) < MaxInFlight
            /\ loading' = TRUE
            /\ inflight' = inflight \cup {QuestionRequest(session + 1)}
            /\ UNCHANGED <<questions, questionsFor>>

\* isOpen becomes true: the effect runs
SessionOpen ==
    /\ UNCHANGED nonSessionVars
    /\ ~isOpen
    /\ isOpen' = TRUE
    /\ \E n \in 0..MaxReviewed : OpenEffect(n)

\* ResultView renders again while the modal is open: reviewedCards is a new array
\* and the effect runs again
SessionPoolChanges ==
    /\ UNCHANGED nonSessionVars
    /\ isOpen
    /\ UNCHANGED isOpen
    /\ \E n \in 0..MaxReviewed : OpenEffect(n)

\* onClose
SessionClose ==
    /\ UNCHANGED nonSessionVars
    /\ isOpen
    /\ isOpen' = FALSE
    /\ UNCHANGED <<step, loading, questions, answers, grade, gradingError, sessionVars>>

\* an awaited generateProveItQuestions call settles: setQuestions(qs), setLoading(false)
SessionQuestionsArrive ==
    /\ UNCHANGED nonSessionVars
    /\ \E r \in inflight, qs \in SessionQuestionLists :
        /\ r.kind = "questions"
        /\ questions' = qs
        /\ questionsFor' = r.session
        /\ inflight' = inflight \ {r}
    /\ loading' = FALSE
    /\ UNCHANGED <<isOpen, step, answers, grade, gradingError, session, gradeFor>>

\* onChange of a question's textarea (rendered when step is "question" and not loading)
SessionType ==
    /\ UNCHANGED nonSessionVars
    /\ isOpen /\ step = "question" /\ ~loading
    /\ \E i \in 1..Len(questions), txt \in AnswerTexts :
        answers' = [answers EXCEPT ![questions[i].id] = txt]
    /\ UNCHANGED <<isOpen, step, loading, questions, grade, gradingError, sessionVars>>

\* click on Submit (disabled while !canSubmit || loading): submit() up to its await
SessionSubmit ==
    /\ UNCHANGED nonSessionVars
    /\ isOpen /\ step = "question" /\ ~loading
    /\ canSubmit
    /\ Cardinality(inflight) < MaxInFlight
    /\ loading' = TRUE
    /\ gradingError' = Null
    /\ inflight' = inflight \cup {GradeRequest(session, questions, answers)}
    /\ UNCHANGED <<isOpen, step, questions, answers, grade, session, questionsFor,
                   gradeFor>>

\* an awaited gradeProveIt call returns: setGrade(g), setStep("results"), setLoading(false)
SessionGradeReturns ==
    /\ UNCHANGED nonSessionVars
    /\ \E r \in inflight :
        /\ r.kind = "grade"
        /\ grade' = GradeOf(SessionParsed, Len(r.questions))
        /\ gradeFor' = [session |-> r.session, questions |-> r.questions,
                        answers |-> r.answers]
        /\ inflight' = inflight \ {r}
    /\ step' = "results"
    /\ loading' = FALSE
    /\ UNCHANGED <<isOpen, questions, answers, gradingError, session, questionsFor>>

\* an awaited gradeProveIt call throws: setGradingError(errorMsg), setLoading(false)
SessionGradeThrows ==
    /\ UNCHANGED nonSessionVars
    /\ \E r \in inflight, e \in SessionErrors :
        /\ r.kind = "grade"
        /\ gradingError' = GradingErrorText(e)
        /\ inflight' = inflight \ {r}
    /\ loading' = FALSE
    /\ UNCHANGED <<isOpen, step, questions, answers, grade, session, questionsFor,
                   gradeFor>>

NextSession ==
    \/ SessionOpen
    \/ SessionPoolChanges
    \/ SessionClose
    \/ SessionQuestionsArrive
    \/ SessionType
    \/ SessionSubmit
    \/ SessionGradeReturns
    \/ SessionGradeThrows

(***************************************************************************)
(* The three list-shaped generators, one call at a time.  The generators    *)
(* share no state, so calls that overlap behave as calls in sequence do.    *)
(***************************************************************************)
ListsIdle == fcPc = "idle" /\ quizPc = "idle" /\ pqPc = "idle"

FlashcardsCalled == ListsIdle /\ CallGenerateFlashcards

QuizCalled == ListsIdle /\ CallGenerateQuiz

ProveItQuestionsCalled == ListsIdle /\ CallGenerateProveItQuestions

NextLists ==
    \/ FlashcardsCalled
    \/ FlashcardsRespond
    \/ FlashcardsCallEnds
    \/ QuizCalled
    \/ QuizResponds
    \/ QuizCallEnds
    \/ ProveItQuestionsCalled
    \/ ProveItQuestionsRespond
    \/ ProveItQuestionsCallEnds

(***************************************************************************)
(* ResultView: the flashcard tab, and the card pool it hands to            *)
(* ProveItModal as the reviewedCards prop.  The model follows a user who   *)
(* waits for the 150 ms card transition before the next click, and who     *)
(* rates at most MaxTracked different cards.                               *)
(***************************************************************************)
PoolTarget == 10
SessionWindow == 20
MaxTracked == 3

\* a deck whose first two cards ask the same question
RepeatingDeck ==
    [k \in 1..11 |-> IF k = 1 THEN [question |-> 1, answer |-> 0, source |-> "S"]
                              ELSE Card(k - 1)]

\* the decks generateFlashcards may deliver
Decks == {SubSeq(TenCards, 1, 3), TenCards, RepeatingDeck}

\* { id: `${kind}-${idx}`, front: c.question, back: c.answer }
AsReviewed(c, kind, idx) == [id |-> <<kind, idx>>, front |-> c.question, back |-> c.answer]

\* cards.find(t => t.front === front) is not undefined
HasFront(cards, front) == \E i \in 1..Len(cards) : cards[i].front = front

Tracked(reviewed, d) ==
    IF Len(reviewed) > 0 THEN reviewed
    ELSE [i \in 1..Len(d) |-> AsReviewed(d[i], "card", i - 1)]

\* deck.slice(0, needed).map(...).filter(c => !tracked.find(t => t.front === c.front))
Additional(tracked, d) ==
    LET needed == PoolTarget - Len(tracked)
        taken == IF needed < Len(d) THEN needed ELSE Len(d)
        mapped == [i \in 1..taken |-> AsReviewed(d[i], "extra-card", i - 1)]
    IN  SelectSeq(mapped, LAMBDA c : ~HasFront(tracked, c.front))

PoolOf(reviewed, d) ==
    LET tracked == Tracked(reviewed, d)
    IN  IF Len(tracked) < PoolTarget THEN tracked \o Additional(tracked, d) ELSE tracked

\* the reviewedCards prop of ProveItModal, computed at every render
CardPool == PoolOf(reviewedCards, deck)

\* reviewedCards.slice(-20) in the open effect of ProveItModal
CardsToUse(pool) ==
    IF Len(pool) <= SessionWindow THEN pool
    ELSE SubSeq(pool, Len(pool) - SessionWindow + 1, Len(pool))

InitView ==
    /\ deck = <<>>
    /\ flashcardIndex = 0
    /\ reviewedCards = <<>>
    /\ proveItOpen = FALSE
    /\ advancePending = FALSE

\* generateFlashcardsOnDemand: setLocalMaterial(prev => ({ ...prev, flashcards: cards }))
FlashcardsGenerated ==
    /\ deck = <<>>
    /\ \E d \in Decks : deck' = d
    /\ UNCHANGED <<flashcardIndex, reviewedCards, proveItOpen, advancePending>>
    /\ UNCHANGED nonViewVars

\* handleFlashcardConfidence
ConfidencePressed ==
    /\ deck # <<>> /\ ~proveItOpen /\ ~advancePending
    /\ LET currentCard == deck[flashcardIndex + 1]
       IN  /\ HasFront(reviewedCards, currentCard.question) \/ Len(reviewedCards) < MaxTracked
           /\ reviewedCards' =
                  IF ~HasFront(reviewedCards, currentCard.question)
                  THEN Append(reviewedCards, AsReviewed(currentCard, "card", flashcardIndex))
                  ELSE reviewedCards
    /\ IF flashcardIndex < Len(deck) - 1
       THEN advancePending' = TRUE /\ UNCHANGED proveItOpen
       ELSE proveItOpen' = TRUE /\ UNCHANGED advancePending
    /\ UNCHANGED <<deck, flashcardIndex>>
    /\ UNCHANGED nonViewVars

\* setTimeout(() => setFlashcardIndex(i => i + 1), 150)
AdvanceTimer ==
    /\ advancePending
    /\ flashcardIndex' = flashcardIndex + 1
    /\ advancePending' = FALSE
    /\ UNCHANGED <<deck, reviewedCards, proveItOpen>>
    /\ UNCHANGED nonViewVars

\* the next button, disabled on the last card
NextCard ==
    /\ deck # <<>> /\ ~proveItOpen /\ ~advancePending
    /\ flashcardIndex # Len(deck) - 1
    /\ flashcardIndex' = flashcardIndex + 1
    /\ UNCHANGED <<deck, reviewedCards, proveItOpen, advancePending>>
    /\ UNCHANGED nonViewVars

\* the previous button, disabled on the first card
PreviousCard ==
    /\ deck # <<>> /\ ~proveItOpen /\ ~advancePending
    /\ flashcardIndex # 0
    /\ flashcardIndex' = flashcardIndex - 1
    /\ UNCHANGED <<deck, reviewedCards, proveItOpen, advancePending>>
    /\ UNCHANGED nonViewVars

\* onClose of ProveItModal
CloseProveIt ==
    /\ proveItOpen
    /\ proveItOpen' = FALSE
    /\ UNCHANGED <<deck, flashcardIndex, reviewedCards, advancePending>>
    /\ UNCHANGED nonViewVars

NextView ==
    \/ FlashcardsGenerated
    \/ ConfidencePressed
    \/ AdvanceTimer
    \/ NextCard
    \/ PreviousCard
    \/ CloseProveIt

(***************************************************************************)
(* FileUpload: the component's state and one run of handleStart, followed  *)
(* from await to await.  Of the calls the run awaits the model keeps       *)
(* whether each succeeded; of GeminiService.generateFlashcardsFromDocument *)
(* it keeps the awaits at which the service issues its own requests.  The  *)
(* Cancel button is the one the component renders, enabled while a run is  *)
(* working.                                                                *)
(***************************************************************************)
MaxRuns == 2

SelectedFiles == {[t |-> "file", pdf |-> b] : b \in BOOLEAN}
StorageModes == {"local", "cloud"}
UploadCardLists == {<<>>, SubSeq(TenCards, 1, 3)}
StepFailed == [message |-> "failed", type |-> "System"]
TooLarge == [message |-> "File size exceeds limit", type |-> "Validation"]

\* if (!file || isWorking) return;
CanStartWhileWorking(f, working) == f # Null
CanStart(f, working) == f # Null /\ ~working

InitUpload ==
    /\ file = Null
    /\ storageMode = "local"
    /\ isWorking = FALSE
    /\ statusText = ""
    /\ uploadError = Null
    /\ cancelRef = FALSE
    /\ runPc = "idle"
    /\ runCards = <<>>
    /\ netLog = {}
    /\ storeLog = {}
    /\ callbackLog = {}
    /\ runsStarted = 0
    /\ runsEnded = 0

\* what a step of the run adds to the logs
Issued(op) == netLog' = netLog \cup {[op |-> op, cancelled |-> cancelRef]}
Stored(key) == storeLog' = storeLog \cup {[key |-> key, cancelled |-> cancelRef]}
Called(prop) == callbackLog' = callbackLog \cup {[prop |-> prop, cancelled |-> cancelRef]}

\* the run goes on to its next await
Continues(pc, text) ==
    /\ runPc' = pc
    /\ statusText' = text
    /\ UNCHANGED <<isWorking, uploadError, runsEnded>>

\* the run leaves handleStart: catch (err is the error state it leaves), finally
Leaves(err) ==
    /\ runPc' = "idle"
    /\ uploadError' = err
    /\ isWorking' = FALSE
    /\ statusText' = ""
    /\ runsEnded' = runsEnded + 1

\* handleFileChange
SelectFile ==
    /\ file = Null /\ ~isWorking
    /\ \E f \in SelectedFiles : file' = f
    /\ uploadError' = Null
    /\ UNCHANGED <<storageMode, isWorking, statusText, cancelRef, runPc, runCards, netLog,
                   storeLog, callbackLog, runsStarted, runsEnded>>
    /\ UNCHANGED nonUploadVars

\* handleFileChange, validateFile returns a message
RejectFile ==
    /\ file = Null /\ ~isWorking
    /\ uploadError' = TooLarge
    /\ UNCHANGED <<file, storageMode, isWorking, statusText, cancelRef, runPc, runCards,
                   netLog, storeLog, callbackLog, runsStarted, runsEnded>>
    /\ UNCHANGED nonUploadVars

\* handleRemove
RemoveFile ==
    /\ file # Null /\ ~isWorking
    /\ file' = Null
    /\ uploadError' = Null
    /\ UNCHANGED <<storageMode, isWorking, statusText, cancelRef, runPc, runCards, netLog,
                   storeLog, callbackLog, runsStarted, runsEnded>>
    /\ UNCHANGED nonUploadVars

\* the storage buttons, rendered when !isWorking
ChooseStorage ==
    /\ ~isWorking
    /\ \E m \in StorageModes : m # storageMode /\ storageMode' = m
    /\ UNCHANGED <<file, isWorking, statusText, uploadError, cancelRef, runPc, runCards,
                   netLog, storeLog, callbackLog, runsStarted, runsEnded>>
    /\ UNCHANGED nonUploadVars

\* handleCancel; the button is disabled while isWorking && statusText === 'Stopping...'
HandleCancel ==
    /\ ~(isWorking /\ statusText = "Stopping...")
    /\ cancelRef' = TRUE
    /\ statusText' = "Stopping..."
    /\ callbackLog' = callbackLog \cup {[prop |-> "onCancel", cancelled |-> TRUE]}
    /\ UNCHANGED <<file, storageMode, isWorking, uploadError, runPc, runCards, netLog,
                   storeLog, runsStarted, runsEnded>>
    /\ UNCHANGED nonUploadVars

\* handleStart up to await readFileAsBase64(file)
HandleStart ==
    /\ CanStart(file, isWorking)
    /\ runsStarted < MaxRuns
    /\ cancelRef' = FALSE
    /\ isWorking' = TRUE
    /\ uploadError' = Null
    /\ statusText' = "Preparing your deck..."
    /\ runPc' = "reading"
    /\ runCards' = <<>>
    /\ netLog' = {}
    /\ storeLog' = {}
    /\ callbackLog' = {[prop |-> "onProcessingStart", cancelled |-> FALSE]}
    /\ runsStarted' = runsStarted + 1
    /\ UNCHANGED <<file, storageMode, runsEnded>>
    /\ UNCHANGED nonUploadVars

\* handleStart with no file or while working: the early return
HandleStartIgnored ==
    /\ ~CanStart(file, isWorking)
    /\ UNCHANGED vars

\* 2) Flashcards FIRST: the call of generateFlashcardsFromDocument, up to the first
\* await of the service (extractPdfText for a PDF, the direct request otherwise)
BeginCards ==
    IF file.pdf
    THEN Continues("extracting", "Creating flashcards...") /\ UNCHANGED netLog
    ELSE Continues("cardsDirect", "Creating flashcards...") /\ Issued("cards.direct")

\* readFileAsBase64 settles
FileRead ==
    /\ runPc = "reading"
    /\ \E ok \in BOOLEAN :
         IF ~ok THEN Leaves(StepFailed) /\ UNCHANGED <<netLog, storeLog>>
         ELSE IF cancelRef THEN Leaves(uploadError) /\ UNCHANGED <<netLog, storeLog>>
         ELSE IF storageMode = "local"
              THEN /\ Continues("savingFile", "Saving to this device...")
                   /\ Stored("files")
                   /\ UNCHANGED netLog
              ELSE BeginCards /\ UNCHANGED storeLog
    /\ UNCHANGED <<file, storageMode, cancelRef, runCards, callbackLog, runsStarted>>
    /\ UNCHANGED nonUploadVars

\* idbSet('files', localKey, file) settles
FileSaved ==
    /\ runPc = "savingFile"
    /\ \E ok \in BOOLEAN :
         IF ~ok THEN Leaves(StepFailed) /\ UNCHANGED netLog
         ELSE IF cancelRef THEN Leaves(uploadError) /\ UNCHANGED netLog
         ELSE BeginCards
    /\ UNCHANGED <<file, storageMode, cancelRef, runCards, storeLog, callbackLog,
                   runsStarted>>
    /\ UNCHANGED nonUploadVars

\* extractPdfText settles inside the service, which then issues its direct request
TextExtracted ==
    /\ runPc = "extracting"
    /\ Continues("cardsDirect", statusText)
    /\ Issued("cards.direct")
    /\ UNCHANGED <<file, storageMode, cancelRef, runCards, storeLog, callbackLog,
                   runsStarted>>
    /\ UNCHANGED nonUploadVars

\* Immediately route user to Flashcards screen; 3) Background work: the summary request
DeliverAndSummarise ==
    /\ Called("onComplete")
    /\ Issued("generateSummary")
    /\ Continues("summary", "Finalizing summary...")

\* handleStart after await generateFlashcardsFromDocument, up to its next await
CardsReturned(cards) ==
    /\ runCards' = cards
    /\ IF cancelRef
       THEN Leaves(uploadError) /\ UNCHANGED <<netLog, storeLog, callbackLog>>
       ELSE IF storageMode = "local"
            THEN /\ Continues("savingMaterial", statusText)
                 /\ Stored("materials")
                 /\ UNCHANGED <<netLog, callbackLog>>
            ELSE DeliverAndSummarise /\ UNCHANGED storeLog

\* the direct request settles: its cards, or the fallback's summary request
DirectSettles ==
    /\ runPc = "cardsDirect"
    /\ \/ \E cards \in UploadCardLists : CardsReturned(cards)
       \/ /\ Continues("cardsFallbackSummary", statusText)
          /\ Issued("cards.fallbackSummary")
          /\ UNCHANGED <<runCards, storeLog, callbackLog>>
    /\ UNCHANGED <<file, storageMode, cancelRef, runsStarted>>
    /\ UNCHANGED nonUploadVars

\* the fallback's generateSummary settles: the flashcard request, or [] on failure
FallbackSummaryReturns ==
    /\ runPc = "cardsFallbackSummary"
    /\ \/ /\ Continues("cardsFallbackCards", statusText)
          /\ Issued("cards.fallbackCards")
          /\ UNCHANGED <<runCards, storeLog, callbackLog>>
       \/ CardsReturned(<<>>)
    /\ UNCHANGED <<file, storageMode, cancelRef, runsStarted>>
    /\ UNCHANGED nonUploadVars

\* the fallback's generateFlashcards settles
FallbackCardsReturn ==
    /\ runPc = "cardsFallbackCards"
    /\ \E cards \in UploadCardLists : CardsReturned(cards)
    /\ UNCHANGED <<file, storageMode, cancelRef, runsStarted>>
    /\ UNCHANGED nonUploadVars

\* idbSet('materials', localKey, material) settles
MaterialSaved ==
    /\ runPc = "savingMaterial"
    /\ \E ok \in BOOLEAN :
         IF ~ok THEN Leaves(StepFailed) /\ UNCHANGED <<netLog, callbackLog>>
         ELSE DeliverAndSummarise
    /\ UNCHANGED <<file, storageMode, cancelRef, runCards, storeLog, runsStarted>>
    /\ UNCHANGED nonUploadVars

\* generateSummary(base64, file.type, 'BULLET') settles
SummaryReturns ==
    /\ runPc = "summary"
    /\ \E ok \in BOOLEAN :
         IF ~ok THEN Leaves(StepFailed) /\ UNCHANGED <<netLog, storeLog, callbackLog>>
         ELSE /\ Called("onUpdate")
              /\ IF ~cancelRef /\ storageMode = "local"
                 THEN /\ Continues("savingSummary", statusText)
                      /\ Stored("materials")
                      /\ UNCHANGED netLog
                 ELSE IF cancelRef
                      THEN Leaves(uploadError) /\ UNCHANGED <<netLog, storeLog>>
                      ELSE /\ Continues("cloudUpload", "Saving to cloud...")
                           /\ Issued("storage.upload")
                           /\ UNCHANGED storeLog
    /\ UNCHANGED <<file, storageMode, cancelRef, runCards, runsStarted>>
    /\ UNCHANGED nonUploadVars

\* idbSet('materials', localKey, updated) settles; storageMode is 'local'
SummarySaved ==
    /\ runPc = "savingSummary"
    /\ \E ok \in BOOLEAN : Leaves(IF ok THEN uploadError ELSE StepFailed)
    /\ UNCHANGED <<file, storageMode, cancelRef, runCards, netLog, storeLog, callbackLog,
                   runsStarted>>
    /\ UNCHANGED nonUploadVars

\* supabase.storage.upload settles
CloudUploadSettles ==
    /\ runPc = "cloudUpload"
    /\ \E ok \in BOOLEAN :
         IF ~ok THEN Leaves(StepFailed) /\ UNCHANGED netLog
         ELSE Continues("cloudUploadRow", statusText) /\ Issued("uploads.insert")
    /\ UNCHANGED <<file, storageMode, cancelRef, runCards, storeLog, callbackLog,
                   runsStarted>>
    /\ UNCHANGED nonUploadVars

\* the insert into uploads settles
UploadRowSettles ==
    /\ runPc = "cloudUploadRow"
    /\ \E ok \in BOOLEAN :
         IF ~ok THEN Leaves(StepFailed) /\ UNCHANGED netLog
         ELSE Continues("cloudSummaryRow", statusText) /\ Issued("summaries.insert")
    /\ UNCHANGED <<file, storageMode, cancelRef, runCards, storeLog, callbackLog,
                   runsStarted>>
    /\ UNCHANGED nonUploadVars

\* the insert into summaries settles
SummaryRowSettles ==
    /\ runPc = "cloudSummaryRow"
    /\ \E ok \in BOOLEAN :
         IF ~ok THEN Leaves(StepFailed) /\ UNCHANGED netLog
         ELSE IF Len(runCards) # 0
              THEN Continues("cloudCardRows", statusText) /\ Issued("flashcards.insert")
              ELSE Leaves(uploadError) /\ UNCHANGED netLog
    /\ UNCHANGED <<file, storageMode, cancelRef, runCards, storeLog, callbackLog,
                   runsStarted>>
    /\ UNCHANGED nonUploadVars

\* the insert into flashcards settles
CardRowsSettle ==
    /\ runPc = "cloudCardRows"
    /\ \E ok \in BOOLEAN : Leaves(IF ok THEN uploadError ELSE StepFailed)
    /\ UNCHANGED <<file, storageMode, cancelRef, runCards, netLog, storeLog, callbackLog,
                   runsStarted>>
    /\ UNCHANGED nonUploadVars

NextUpload ==
    \/ SelectFile
    \/ RejectFile
    \/ RemoveFile
    \/ ChooseStorage
    \/ HandleCancel
    \/ HandleStart
    \/ HandleStartIgnored
    \/ FileRead
    \/ FileSaved
    \/ TextExtracted
    \/ DirectSettles
    \/ FallbackSummaryReturns
    \/ FallbackCardsReturn
    \/ MaterialSaved
    \/ SummaryReturns
    \/ SummarySaved
    \/ CloudUploadSettles
    \/ UploadRowSettles
    \/ SummaryRowSettles
    \/ CardRowsSettle

(***************************************************************************)
(* Specifications                                                          *)
(***************************************************************************)
InitAll ==
    /\ InitModal /\ IdleFrame /\ InitSummary /\ InitQuiz /\ InitQuestions
    /\ InitFlashcards /\ InitDocCards /\ InitSession /\ InitView /\ InitUpload

NextGrade ==
    \/ OpenModal
    \/ QuestionsArrive
    \/ TypeAnswer
    \/ CloseModal
    \/ Submit
    \/ SubmitRefused
    \/ RetryAttempt
    \/ RetryWake
    \/ SubmitSettles

SpecGrade == InitAll /\ [][NextGrade]_vars

SpecSummary == InitAll /\ [][NextSummary]_vars

SpecQuiz == InitAll /\ [][NextQuiz]_vars

SpecQuestions == InitAll /\ [][NextQuestions]_vars

SpecDocCards == InitAll /\ [][NextDocCards]_vars

SpecLists == InitAll /\ [][NextLists]_vars

SpecSession == InitAll /\ [][NextSession]_vars

SpecView == InitAll /\ [][NextView]_vars

SpecUpload == InitAll /\ [][NextUpload]_vars

(***************************************************************************)
(* Properties of retryWithBackoff and gradeProveIt (SpecGrade)             *)
(***************************************************************************)
StrictlyIncreasing(s) == \A i \in 1..(Len(s) - 1) : s[i] < s[i + 1]

HasRetrySignal(e) ==
    \/ e.status \in {"429", "503"}
    \/ e.hasMessage /\ e.message \cap Markers # {}

\* C2: a failure that carries no rate-limit, unavailable or overload signal is never
\* followed by a sleep or another attempt: the call ends at once by throwing it; if
\* it is the first failure the operation ran exactly once and nothing was slept.
C2_FatalNotRetried ==
    \A i \in 1..Len(fnErrors) :
        ~HasRetrySignal(fnErrors[i]) =>
            /\ i = Len(fnErrors)
            /\ retryPc = "thrown"
            /\ retryThrown = fnErrors[i]
            /\ fnCalls = i
            /\ Len(sleeps) = i - 1

C2_Witness ==
    /\ retryPc = "thrown" /\ fnCalls = 1 /\ sleeps = <<>>
    /\ Len(fnErrors) = 1 /\ ~HasRetrySignal(fnErrors[1])

\* C3: when all 3 attempts fail with a retryable error the call throws the error of
\* the last attempt itself and returns nothing.
C3_LastErrorRethrown ==
    (Len(fnErrors) = MaxRetries /\ \A i \in 1..MaxRetries : HasRetrySignal(fnErrors[i]))
        => /\ retryPc = "thrown"
           /\ retryThrown = fnErrors[MaxRetries]
           /\ retryResult = Undefined

C3_Witness ==
    /\ Len(fnErrors) = MaxRetries
    /\ \A i \in 1..MaxRetries : HasRetrySignal(fnErrors[i])
    /\ fnErrors[3] # fnErrors[1] /\ fnErrors[3] # fnErrors[2]
    /\ retryPc = "thrown"

\* C4: as long as fewer than 3 attempts have failed and every failure was retryable
\* the call has not thrown, and a call that returned hands back the grade built from
\* the response of its last attempt, with no error raised.
C4_SuccessAfterRetries ==
    /\ (Len(fnErrors) < MaxRetries /\ \A i \in 1..Len(fnErrors) : HasRetrySignal(fnErrors[i]))
          => retryPc # "thrown"
    /\ retryPc = "returned" =>
          /\ fnCalls = Len(fnErrors) + 1
          /\ lastResponse.kind = "text"
          /\ retryResult = GradeOf(GradeRaw(lastResponse.body), Len(callArgs.questions))
          /\ retryThrown = Undefined

C4_Witness ==
    /\ retryPc = "returned" /\ fnCalls = 3
    /\ Len(fnErrors) = 2
    /\ \A i \in 1..2 : IsServerOverload(fnErrors[i]) /\ ~IsRateLimit(fnErrors[i])
    /\ lastResponse.body.kind = "object"

\* every question on display has an answer with a character other than a blank
AllAnswered ==
    /\ Len(questions) >= 1
    /\ \A i \in 1..Len(questions) :
          \E k \in 1..Len(answers[questions[i].id]) : answers[questions[i].id][k] # " "

\* C16: a grading call starts only in a state with at least one question and a
\* non-blank answer to every question, and it carries exactly those questions and
\* answers; in any other state no step starts a grading call or touches the call's
\* arguments, and an invocation of submit changes nothing.
C16_SubmitOnlyWhenAnswered ==
    [][/\ (modalPc # "grading" /\ modalPc' = "grading")
            => /\ AllAnswered
               /\ callArgs' = [questions |-> questions, answers |-> answers]
               /\ fnCalls' = 1
       /\ ~AllAnswered
            => /\ modalPc' # "grading"
               /\ UNCHANGED <<retryVars, callArgs>>
       /\ (~AllAnswered /\ isOpen /\ isOpen' /\ modalPc = "idle" /\ modalPc' = "idle")
            => UNCHANGED <<step, loading, questions, grade, gradingError>>]_vars

C16_Witness ==
    /\ modalPc = "grading" /\ retryPc = "fn"
    /\ Len(callArgs.questions) = 2
    /\ callArgs.questions[1].id # callArgs.questions[2].id
    /\ \A i \in 1..2 : callArgs.answers[callArgs.questions[i].id] = <<"x">>

\* a failure that carries the rate-limit signal, HTTP 429
RateLimited(e) == e.status = "429" \/ (e.hasMessage /\ "429" \in e.message)

\* the base a sleep of d milliseconds before attempt k + 1 was computed from
SleepBase(d, k) == d \div (2 ^ k)

GradingFailed(o) ==
    \/ o.kind = "error"
    \/ o.kind = "text" /\ o.body.kind \in {"empty", "garbage", "null"}

\* C6 as stated: a grading call whose request failed never returns a grade.
C6_GradingFailurePropagated ==
    retryPc = "returned" => ~GradingFailed(lastResponse)

\* C10 as stated: every grade gradeProveIt returns has totalScore <= maxScore.  The
\* statement is read on the grades whose two scores are numbers; a score that is
\* NaN compares false with everything and breaks the claim as well.
C10_TotalAtMostMax ==
    (/\ retryPc = "returned"
     /\ retryResult.totalScore.t = "num"
     /\ retryResult.maxScore.t = "num")
        => retryResult.totalScore.v <= retryResult.maxScore.v

\* the value of a field of the grading response, undefined when it is left out
FieldOf(body, name) ==
    IF body.kind = "object" THEN body[name] ELSE Undefined

\* C22: a grade returned for a response without maxScore has maxScore equal to the
\* number of questions submitted, and a grade returned for a response without
\* totalScore has totalScore 0.
C22_ScoreDefaults ==
    (retryPc = "returned" /\ lastResponse.body.kind \in {"object", "empty"}) =>
        /\ FieldOf(lastResponse.body, "maxScore") = Undefined
              => /\ retryResult.maxScore.t = "num"
                 /\ retryResult.maxScore.v = Len(callArgs.questions)
        /\ FieldOf(lastResponse.body, "totalScore") = Undefined
              => /\ retryResult.totalScore.t = "num"
                 /\ retryResult.totalScore.v = 0

C22_Witness ==
    /\ retryPc = "returned"
    /\ lastResponse.body.kind = "object"
    /\ lastResponse.body.maxScore = Undefined
    /\ lastResponse.body.totalScore = JNum(1)
    /\ Len(callArgs.questions) = 2
    /\ retryResult.maxScore = JNum(2)

\* C11 as stated: in every grade gradeProveIt returns, each per-question result has
\* a follow-up question (non-null) exactly when it is marked incorrect.
C11_FollowUpIffIncorrect ==
    retryPc = "returned" =>
        \A i \in 1..Len(retryResult.results) :
            (retryResult.results[i].followUpQuestion # Null)
                <=> ~retryResult.results[i].correct

(***************************************************************************)
(* Properties of ProveItModal with several requests in flight (SpecSession)*)
(***************************************************************************)
\* C27 as stated: the questions on display were generated for the latest run of
\* the open effect, and in the results step the grade held was computed from the
\* questions and answers the session holds.
C27_NoStaleResponse ==
    /\ (isOpen /\ step = "question" /\ ~loading) => questionsFor = session
    /\ step = "results" =>
          /\ grade # Null
          /\ gradeFor.session = session
          /\ gradeFor.questions = questions
          /\ gradeFor.answers = answers

\* the grading requests awaited
GradingsInFlight == {r \in inflight : r.kind = "grade"}

\* C28 as stated: loading is true whenever a request of the modal is in flight, and
\* at most one grading request is in flight.
C28_LoadingCoversRequests ==
    /\ inflight # {} => loading
    /\ Cardinality(GradingsInFlight) <= 1

\* the step in which an awaited grading call ends, by throwing or by returning
GradingEnds == \E r \in GradingsInFlight : inflight' = inflight \ {r}
GradingThrew == GradingEnds /\ gradeFor' = gradeFor
GradingSucceeded == GradingEnds /\ gradeFor' # gradeFor

\* C29 as stated: a grading call that fails leaves the session in the question
\* step with the same questions and answers, grade null, loading false and a
\* grading error set, so that Submit is enabled again; a grading call that succeeds
\* leaves it in the results step with no grading error.
C29_FailedGradingKeepsSession ==
    [][/\ GradingThrew =>
            /\ step' = "question"
            /\ questions' = questions /\ answers' = answers
            /\ grade' = Null
            /\ ~loading'
            /\ gradingError' # Null
            /\ canSubmit'
       /\ GradingSucceeded =>
            /\ step' = "results"
            /\ grade' # Null
            /\ gradingError' = Null]_vars

(***************************************************************************)
(* Properties of generateSummary (SpecSummary)                             *)
(***************************************************************************)
\* the three template names in priority order, spelled out
ModeNames == << <<"t", "l", "d", "r">>,
                <<"b", "u", "l", "l", "e", "t">>,
                <<"d", "e", "t", "a", "i", "l", "e", "d">> >>
TemplateOf == <<"tldr", "bullet", "detailed">>

\* the letters of a label in lower case, everything else left out
LettersOf(label) ==
    IF label.t # "text" THEN <<>> ELSE SelectSeq(ToLowerCase(label.s), IsLowerLetter)

\* the names that occur in a sequence of letters, by priority
NamesIn(letters) ==
    {k \in 1..3 : \E pre \in 0..(Len(letters) - Len(ModeNames[k])) :
        \A j \in 1..Len(ModeNames[k]) : letters[pre + j] = ModeNames[k][j]}

ExpectedTemplate(label) ==
    LET found == NamesIn(LettersOf(label)) IN
    IF found = {} THEN "bullet"
    ELSE TemplateOf[CHOOSE k \in found : \A m \in found : k <= m]

\* C18: every label selects a template; it is the template of the first of tldr,
\* bullet, detailed (in that order) that occurs in the label's lower-cased letters,
\* and the bullet template when none occurs.
C18_ModePriority ==
    \A i \in 1..Len(sumRequests) :
        /\ sumRequests[i].prompt \in {"tldr", "bullet", "detailed"}
        /\ sumRequests[i].prompt = ExpectedTemplate(sumArgs.mode)

C18_Witness ==
    /\ Len(sumRequests) = 1
    /\ NamesIn(LettersOf(sumArgs.mode)) = {2, 3}
    /\ sumRequests[1].prompt = "bullet"

\* C21: while extractPdfText reads a PDF its text holds the pages 1, 2, ... read so
\* far, in that order and never more than 40 of them; the text of an extraction
\* that ran to its end holds exactly min(numPages, 40) pages, the first ones.
C21_AtMostFortyPages ==
    sumArgs.mimeType = "application/pdf" =>
        /\ Len(sumFullText) <= 40
        /\ Len(sumFullText) <= sumArgs.numPages
        /\ \A i \in 1..Len(sumFullText) : sumFullText[i] = i
        /\ (sumPc \in {"awaiting", "returned", "thrown"} /\ sumFullText # <<>>)
              => /\ Len(sumFullText) = (IF sumArgs.numPages < 40 THEN sumArgs.numPages ELSE 40)
                 /\ sumRequests[1].parts = "prompt+text"

C21_Witness ==
    /\ sumPc = "awaiting"
    /\ sumArgs.numPages > 40
    /\ Len(sumFullText) = 40 /\ sumFullText[40] = 40

\* a summary generation that failed or produced nothing
GenerationFailed(o) == o.kind = "error" \/ ~Truthy(o.text)

\* C5 as stated: when the service fails or returns no text generateSummary throws
\* and returns no summary string.
C5_NoSilentSummary ==
    (sumPc \in {"returned", "thrown"} /\ GenerationFailed(sumOutcome))
        => sumPc = "thrown" /\ sumResult = Undefined

\* C7 as stated: a summary request that fails with a retryable error while attempts
\* remain is issued again before generateSummary reports failure.
C7_SummaryRetried ==
    (sumPc = "thrown" /\ Len(sumRequests) < MaxRetries)
        => ~(sumOutcome.kind = "error" /\ HasRetrySignal(sumOutcome.err))


(***************************************************************************)
(* Properties of the list-shaped generators (SpecLists)                    *)
(***************************************************************************)
\* a request that failed at the service, or whose response text does not parse
ServiceOrParseFailure(o) ==
    \/ o.kind = "error"
    \/ o.kind = "text" /\ o.body.kind = "garbage"

\* C14: a call of generateFlashcards, generateQuiz or generateProveItQuestions
\* never ends by throwing, and a call whose request failed at the service or whose
\* response did not parse has returned the empty list.
C14_ListGeneratorsNeverThrow ==
    /\ fcPc \in {"idle", "awaiting", "returned"}
    /\ quizPc \in {"idle", "awaiting", "returned"}
    /\ pqPc \in {"idle", "awaiting", "returned"}
    /\ (fcPc = "returned" /\ ServiceOrParseFailure(fcOutcome)) => fcResult = <<>>
    /\ (quizPc = "returned" /\ quizRequests # <<>> /\ ServiceOrParseFailure(quizOutcome))
          => quizResult = <<>>
    /\ (pqPc = "returned" /\ ServiceOrParseFailure(pqOutcome)) => pqResult = <<>>
    /\ fcPc \in {"awaiting", "returned"} => Len(fcRequests) = 1

C14_Witness ==
    /\ fcPc = "returned"
    /\ fcOutcome.kind = "text" /\ fcOutcome.body.kind = "garbage"
    /\ fcResult = <<>>

(***************************************************************************)
(* Properties of generateFlashcardsFromDocument and its fallback           *)
(* (SpecDocCards)                                                          *)
(***************************************************************************)
\* the text of the first 40 pages of a document of n pages
ReadablePages(n) == [i \in 1..(IF n <= 40 THEN n ELSE 40) |-> i]

\* C12: when the extraction of a PDF does not deliver the document's text (its
\* decode or a page read threw), the text handed back is empty, and the enclosing
\* generateFlashcardsFromDocument or generateSummary call has issued its one
\* request with the raw document attached; the call does not fail unless that
\* request does.
C12_ExtractionFailureDegrades ==
    /\ (/\ dcPc \notin {"idle", "open", "pages"}
        /\ dcArgs.mimeType = "application/pdf"
        /\ dcText # ReadablePages(dcArgs.numPages))
          => /\ dcText = <<>>
             /\ Len(dcRequests) = 1
             /\ dcRequests[1].parts = "prompt+inlineData"
    /\ (/\ sumPc \notin {"idle", "open", "pages"}
        /\ sumArgs.mimeType = "application/pdf"
        /\ sumFullText # ReadablePages(sumArgs.numPages))
          => /\ sumFullText = <<>>
             /\ Len(sumRequests) = 1
             /\ sumRequests[1].parts = "prompt+inlineData"
             /\ sumPc = "thrown" => sumOutcome.kind = "error"

C12_Witness ==
    /\ dcArgs.mimeType = "application/pdf" /\ dcArgs.numPages >= 2
    /\ dcText = <<>>
    /\ sumPc = "returned" /\ sumFullText = <<>>
    /\ dcPc = "returned" /\ Len(dcResult) = 10

\* C20: for a document whose mime type is not application/pdf neither
\* generateFlashcardsFromDocument nor generateSummary ever enters extractPdfText (no
\* decode, no page read), the text context is empty, and the one request each has
\* issued carries the raw document.
C20_NonPdfSkipsExtraction ==
    /\ (dcPc # "idle" /\ dcArgs.mimeType # "application/pdf")
          => /\ dcPc \notin {"open", "pages"}
             /\ dcPage = 0 /\ dcFullText = <<>> /\ dcText = <<>>
             /\ Len(dcRequests) = 1 /\ dcRequests[1].parts = "prompt+inlineData"
    /\ (sumPc # "idle" /\ sumArgs.mimeType # "application/pdf")
          => /\ sumPc \notin {"open", "pages"}
             /\ sumPage = 0 /\ sumFullText = <<>>
             /\ Len(sumRequests) = 1 /\ sumRequests[1].parts = "prompt+inlineData"

C20_Witness ==
    /\ dcArgs.mimeType = "text/plain"
    /\ dcPc = "fallbackSummary" /\ sumPc = "awaiting"
    /\ sumArgs.mimeType = "text/plain"

\* the model a request has to name: the capable one when it carries the raw
\* document, the fast one when it carries extracted text
ModelFor(request) ==
    IF request.parts = "prompt+inlineData" THEN "gemini-3-pro-preview"
    ELSE "gemini-3-flash-preview"

\* C25 as stated: every request of generateFlashcardsFromDocument and of
\* generateSummary names the capable model when it carries the raw document and
\* the fast model when it carries extracted text.
C25_ModelFollowsText ==
    /\ \A i \in 1..Len(dcRequests) : dcRequests[i].model = ModelFor(dcRequests[i])
    /\ \A i \in 1..Len(sumRequests) : sumRequests[i].model = ModelFor(sumRequests[i])

\* a flashcard request that produced no cards: a service error, an empty or
\* unparsable response, or an empty array
NoCards(o) ==
    \/ o.kind = "error"
    \/ o.kind = "text" /\ o.body.kind \in {"empty", "garbage"}
    \/ o.kind = "text" /\ o.body.kind = "json" /\ o.body.value = <<>>

\* the fallback of the call has been entered
FallbackRan == Len(sumRequests) >= 1 \/ sumPc # "idle"

\* C13 as stated: generateFlashcardsFromDocument returns the empty list only when
\* both levels failed, that is the direct request produced no cards and the
\* fallback ran and produced none either; a failed direct request is followed by
\* the fallback, and the cards of a fallback that succeeds are the cards returned.
C13_EmptyOnlyIfBothFail ==
    dcPc = "returned" =>
        /\ dcResult = <<>> =>
              /\ NoCards(dcOutcome)
              /\ FallbackRan
              /\ sumPc = "thrown" \/ (fcPc = "returned" /\ NoCards(fcOutcome))
        /\ (dcOutcome.kind = "error" \/ dcOutcome.body.kind = "garbage") => FallbackRan
        /\ (FallbackRan /\ fcPc = "returned") => dcResult = fcResult
\* two errors with the same message, as far as the model keeps messages
SameMessage(e, f) == e.hasMessage = f.hasMessage /\ e.message = f.message

\* C15 as stated: when the completion service fails during summary generation or
\* prove-it grading, the error the caller receives carries the message of the
\* underlying failure.
C15_MessagePreserved ==
    /\ (sumPc = "thrown" /\ sumOutcome.kind = "error")
          => SameMessage(sumThrown, sumOutcome.err)
    /\ (retryPc = "thrown" /\ lastResponse.kind = "error")
          => SameMessage(retryThrown, lastResponse.err)


(***************************************************************************)
(* Properties of generateQuiz (SpecQuiz)                                   *)
(***************************************************************************)
\* the cards of a list that have a non-empty question and a non-empty answer
UsableCards(cards) ==
    {i \in 1..Len(cards) :
        /\ cards[i].question.t = "text" /\ Len(cards[i].question.s) > 0
        /\ cards[i].answer.t = "text" /\ Len(cards[i].answer.s) > 0}

\* C8: a call with fewer than 3 usable flashcards returns the empty list and issues
\* no request to the completion service.
C8_QuizNeedsThreeCards ==
    (quizPc # "idle" /\ Cardinality(UsableCards(quizArgs.flashcards)) < 3)
        => quizPc = "returned" /\ quizResult = <<>> /\ quizRequests = <<>>

C8_Witness ==
    /\ quizPc = "returned"
    /\ Len(quizArgs.flashcards) = 4
    /\ Cardinality(UsableCards(quizArgs.flashcards)) = 2
    /\ \E i \in 1..4 : /\ TruthyText(quizArgs.flashcards[i].question)
                       /\ ~TruthyText(quizArgs.flashcards[i].answer)

\* C19 as stated: every question generateQuiz returns has exactly 4 options and a
\* correctAnswer that is one of them, and a call with 5 usable flashcards returns
\* exactly 5 questions.
C19_QuizWellFormed ==
    quizPc = "returned" =>
        /\ \A i \in 1..Len(quizResult) :
              /\ Len(quizResult[i].options) = 4
              /\ \E k \in 1..Len(quizResult[i].options) :
                    quizResult[i].options[k] = quizResult[i].correctAnswer
        /\ Cardinality(UsableCards(quizArgs.flashcards)) = 5 => Len(quizResult) = 5

(***************************************************************************)
(* Properties of generateProveItQuestions (SpecQuestions)                  *)
(***************************************************************************)
\* a string with a character other than a blank
HasContent(x) == x.t = "text" /\ \E i \in 1..Len(x.s) : x.s[i] # " "

\* an entry of the response that lacks none of id, question, answerKey, sourceCardIds
CompleteEntry(q) ==
    /\ HasContent(q.id) /\ HasContent(q.question) /\ HasContent(q.answerKey)
    /\ q.sourceCardIds.t = "array" /\ Len(q.sourceCardIds.items) >= 1

ResponseEntries(o) ==
    IF o.kind = "text" /\ o.body.kind = "array" THEN o.body.entries ELSE <<>>

\* C9: the returned list has at most 3 entries, each with a non-empty id, question
\* and answerKey and a non-empty sourceCardIds list, and it holds no more entries
\* than the response has complete ones: incomplete entries are left out.
C9_QuestionsCleaned ==
    pqPc = "returned" =>
        /\ Len(pqResult) <= 3
        /\ \A j \in 1..Len(pqResult) :
              /\ Len(pqResult[j].id) > 0
              /\ Len(pqResult[j].question) > 0
              /\ Len(pqResult[j].answerKey) > 0
              /\ Len(pqResult[j].sourceCardIds) > 0
        /\ Len(pqResult) <=
              Cardinality({i \in 1..Len(ResponseEntries(pqOutcome)) :
                              CompleteEntry(ResponseEntries(pqOutcome)[i])})

C9_Witness ==
    /\ pqPc = "returned"
    /\ Len(pqResult) = 3
    /\ Len(ResponseEntries(pqOutcome)) = 4
    /\ ~CompleteEntry(ResponseEntries(pqOutcome)[2])

(***************************************************************************)
(* The card pool of the prove-it session                                   *)
(***************************************************************************)
DistinctQuestions(d) == Cardinality({d[i].question : i \in 1..Len(d)})

\* no card after the first n of the pool repeats the front of an earlier card
NoRepeatedTopUp(pool, n) ==
    \A j \in (n + 1)..Len(pool) : \A i \in 1..(j - 1) : pool[i].front # pool[j].front

\* C26: when the session opens, the pool it is handed has at least 10 cards if the
\* deck holds at least 10 cards with distinct question texts, however many cards
\* were reviewed, and no card the top-up added has the question text of a card
\* already in the pool.
C26_PoolOfTen ==
    proveItOpen =>
        LET pool == CardPool
        IN  /\ DistinctQuestions(deck) >= PoolTarget
                   => Len(CardsToUse(pool)) >= PoolTarget
            /\ NoRepeatedTopUp(pool, Len(Tracked(reviewedCards, deck)))

\* the first half of C26 alone, and the second half alone
C26_SizeOnly ==
    (proveItOpen /\ DistinctQuestions(deck) >= PoolTarget)
        => Len(CardsToUse(CardPool)) >= PoolTarget
C26_DistinctOnly ==
    proveItOpen => NoRepeatedTopUp(CardPool, Len(Tracked(reviewedCards, deck)))

ResultProps == {"onComplete", "onUpdate"}

RunBegins == runsStarted' = runsStarted + 1
RunFinishes == runsEnded' = runsEnded + 1

====
